---------------------------- MODULE Spec2Model ----------------------------
(***************************************************************************)
(* Post Room backend: identity, single-use tokens and session credentials; *)
(* blogs, follows and notifications.                                       *)
(*                                                                         *)
(* The store (Prisma over PostgreSQL) is a set of rows per table.  Every   *)
(* request handler is an async function: the code between two awaits runs  *)
(* to completion on Node's single thread, so one action of the model is    *)
(* one awaited collaborator call (a store query, the provider lookup, the  *)
(* mail callback) together with the local code that follows it up to the   *)
(* next awaited call or the response.  Requests run in slots; the steps of *)
(* different slots interleave.  A handler's last step leaves the response  *)
(* in its slot; sending it (Deliver) is the next step of the system and    *)
(* empties the slot.                                                       *)
(*                                                                         *)
(* Time is counted in minutes.                                             *)
(*                                                                         *)
(* The handlers of blogs, follows and notifications run protect and their  *)
(* first store query in one step: protect reads only the User row of the   *)
(* requester, which none of these handlers writes.                         *)
(***************************************************************************)
EXTENDS Integers, FiniteSets, Sequences, TLC

VARIABLES
    users,                \* table User
    activateTokens,       \* table ActivateToken
    passwordResetTokens,  \* table PasswordResetToken
    deleteTokens,         \* table AccountDeleteToken (db.deleteToken)
    nextId,               \* autoincrement ids and randomUUID draws: never reused
    now,                  \* the clock, new Date() / Date.now(), in minutes
    mails,                \* calls of transporter.sendMail and their outcome
    sessions,             \* credentials signed by generateToken
    reqs,                 \* per slot: the request in flight, or the last response
    usernames,            \* column User.username, by user id
    blogs,                \* table Blog
    follows,              \* table Follow
    notifications,        \* table Notification
    completed,            \* the 200 responses of publishBlog sent so far
    categories,           \* table Category
    categoryOnBlogs,      \* table CategoryOnBlogs
    lists,                \* table List (saved blogs)
    comments,             \* table Comment
    searches              \* table Searches

vars == <<users, activateTokens, passwordResetTokens, deleteTokens, nextId,
          now, mails, sessions, reqs, usernames, blogs, follows, notifications,
          completed, categories, categoryOnBlogs, lists, comments, searches>>

dbVars == <<users, activateTokens, passwordResetTokens, deleteTokens, nextId>>

\* The tables of categories, saved blogs, comments and recent searches
contentVars == <<categories, categoryOnBlogs, lists, comments, searches>>

\* The tables of blogs, follows and notifications, and the usernames
socialVars == <<usernames, blogs, follows, notifications, completed, contentVars>>

\* What the handlers of blogs, follows and notifications never write
accountVars == <<users, activateTokens, passwordResetTokens, deleteTokens, now,
                 mails, sessions, usernames>>

----------------------------------------------------------------------------
(* Bounds of the model *)

MaxRows == 3              \* rows the store creates in one behaviour
MaxSessions == 2          \* credentials the server signs in one behaviour
NumSlots == 2             \* requests that may be in flight together

Slots == 1..NumSlots

----------------------------------------------------------------------------
(* Inputs *)

\* Request bodies: the empty string is a missing field.
Emails == {"a@x.io", "b@x.io"}
EmailInputs == Emails \cup {"", "no-at-sign"}

\* emailRegex = /^[^\s@]+@[^\s@]+\.[^\s@]+$/
emailRegexTest(e) == e \in Emails

\* A password by the features the policy regex looks at.
PasswordInfo ==
    [ x \in {"Passw0rd!", "N3wpass!!", "password"} |->
        CASE x = "Passw0rd!" -> [letter |-> TRUE, digit |-> TRUE, special |-> TRUE, len |-> 9]
          [] x = "N3wpass!!" -> [letter |-> TRUE, digit |-> TRUE, special |-> TRUE, len |-> 9]
          [] x = "password"  -> [letter |-> TRUE, digit |-> FALSE, special |-> FALSE, len |-> 8] ]

Passwords == DOMAIN PasswordInfo

\* What clients send to register (email, password): well-formed pairs, a weak
\* password, a missing field, a malformed email
RegisterInputs ==
    (Emails \X {"Passw0rd!"}) \cup
    {<<"a@x.io", "password">>, <<"", "Passw0rd!">>, <<"a@x.io", "">>,
     <<"no-at-sign", "Passw0rd!">>}

\* What clients send to log in (email, password)
LoginInputs ==
    (Emails \X {"Passw0rd!", "N3wpass!!"}) \cup
    {<<"", "Passw0rd!">>, <<"a@x.io", "">>, <<"no-at-sign", "Passw0rd!">>}

\* The new passwords clients send to reset-password
ResetPasswords == {"N3wpass!!", "password", ""}

\* passwordRegex = /^(?=.*[a-zA-Z])(?=.*[0-9])(?=.*[!@#$%^&*(),.?":{}|<>]).{8,}$/
passwordRegexTest(p) ==
    /\ PasswordInfo[p].letter
    /\ PasswordInfo[p].digit
    /\ PasswordInfo[p].special
    /\ PasswordInfo[p].len >= 8

\* bcrypt.hash(password, 12)
NoHash == [alg |-> "none", pw |-> ""]
bcryptHash(p) == [alg |-> "bcrypt", pw |-> p]

----------------------------------------------------------------------------
(* Time *)

\* (now - createdAt) / (1000 * 3600) > 24: the validity window, in minutes
TokenTtl == 24 * 60

\* jwt.sign(..., { expiresIn: "30d" }), in minutes
SessionTtl == 30 * 24 * 60

\* The instants the clock is observed at: a token created at 0 is 23h59m and
\* 24h01m old at the next two, a session signed at 0 is 30 days old at the last.
Instants == {0, TokenTtl - 1, TokenTtl + 1, SessionTtl}

----------------------------------------------------------------------------
(* Rows and the store's queries *)

\* model User; id 0 is "no row" (null)
NoUser == [id |-> 0, email |-> "", isEmailVerified |-> FALSE,
           hashedPassword |-> NoHash, provider |-> "DEFAULT"]

\* models ActivateToken, PasswordResetToken, AccountDeleteToken share a shape;
\* usedAt is activatedAt / resetAt / deleteAt, -1 when null
NoRow == [id |-> 0, token |-> 0, userId |-> 0, createdAt |-> 0, usedAt |-> -1]

\* crypto.randomUUID() + crypto.randomUUID(): a string never drawn before
NoToken == 0
randomUUIDs == nextId

\* db.<table>.create({ data: { token, userId } }): createdAt defaults to now()
newTokenRow(uid) ==
    [id |-> nextId, token |-> randomUUIDs, userId |-> uid, createdAt |-> now,
     usedAt |-> -1]

\* db.user.findFirst / findUnique({ where: { email } })
findUserByEmail(e) ==
    IF \E u \in users : u.email = e
    THEN CHOOSE u \in users : u.email = e
    ELSE NoUser

\* db.user.findUnique({ where: { id } })
findUserById(i) ==
    IF \E u \in users : u.id = i
    THEN CHOOSE u \in users : u.id = i
    ELSE NoUser

\* A User table without the unique index on email
emailNotUnique(e) == FALSE

\* email String @unique: db.user.create throws when the email is taken
emailTaken(e) == \E u \in users : u.email = e

\* db.<table>.findUnique({ where: { token } })
findToken(table, t) ==
    IF \E row \in table : row.token = t
    THEN CHOOSE row \in table : row.token = t
    ELSE NoRow

\* One table for the tokens of every purpose
findAnyToken(t) == findToken(activateTokens \cup passwordResetTokens \cup deleteTokens, t)

\* db.activateToken.findUnique({ where: { token: req.params.token } })
findActivateToken(t) == findToken(activateTokens, t)

\* db.passwordResetToken.findUnique({ where: { token: req.params.token } })
findPasswordResetToken(t) == findToken(passwordResetTokens, t)

\* db.deleteToken.findUnique({ where: { token } })
findDeleteToken(t) == findToken(deleteTokens, t)

\* The token strings a client can present: every string ever issued, for any
\* purpose, and one that was never issued.
TokenInputs == {NoToken} \cup {row.token : row \in activateTokens \cup passwordResetTokens \cup deleteTokens}

----------------------------------------------------------------------------
(* Session credentials *)

NoCred == [id |-> 0, iat |-> 0, sig |-> "none"]

\* No Blog row: findUnique returned null
NoBlog == [id |-> 0, blogId |-> 0, title |-> "", content |-> "", draft |-> TRUE,
           authorId |-> 0]

\* No Follow row: findFirst returned null
NoFollow == [id |-> 0, userId |-> 0, followerId |-> 0]

\* No Comment row: findUnique returned null
NoComment == [id |-> 0, content |-> "", blogId |-> 0, authorId |-> 0]

\* No Searches row
NoSearch == [id |-> 0, userId |-> 0, content |-> ""]

\* req.body.categories is undefined
NoCategories == [given |-> FALSE, names |-> <<>>]

\* generateToken: jwt.sign({ id }, JWT_SECRET, { expiresIn: "30d" })
generateToken(id) == [id |-> id, iat |-> now, sig |-> "ok"]

\* A credential signed with another secret
forged(id) == [id |-> id, iat |-> now, sig |-> "bad"]

\* A verification that ignores exp (ignoreExpiration: true)
jwtVerifyIgnoreExpiration(cred) == cred.sig = "ok"

\* jwt.verify(token, JWT_SECRET): the signature checks and exp is in the future
jwtVerify(cred) == cred.sig = "ok" /\ now < cred.iat + SessionTtl

----------------------------------------------------------------------------
(* Requests *)

\* A request: its route (op), where its handler stands (pc), what it was sent
\* (email, password, token, cred, provider), the handler's locals (user is
\* req.user.id, row the token row read or created, uid the user row created or
\* updated), and its response (status, sess: the Authorization header).
\* at, prior and mail record what the handler saw: the clock when it looked the
\* token up, whether the row it then wrote had been written by someone else, and
\* what the mail callback said.
\* For the handlers of blogs and follows: the route parameters (blogId, name),
\* the body (title, content), the rows read (blog, edge), the followers read by
\* findMany and not yet notified, and the notification ids the request created.
\* For the handlers of categories, saved blogs, comments and searches: the body
\* (categories, and content for a comment), the parameters (id, name, query),
\* the rows read (category, comment, search, recent), the index of the loop
\* over recent (i) and the blogs the response shows with their title and
\* content (shown).
NoReq == [op |-> "none", pc |-> "idle", email |-> "", password |-> "",
          token |-> NoToken, cred |-> NoCred, user |-> 0, row |-> NoRow,
          uid |-> 0, at |-> 0, prior |-> FALSE, mail |-> "none", status |-> 0,
          sess |-> NoCred, blogId |-> 0, name |-> "", title |-> "",
          content |-> "", blog |-> NoBlog, edge |-> NoFollow,
          followers |-> <<>>, made |-> {}, categories |-> NoCategories,
          category |-> 0, id |-> 0, query |-> "", comment |-> NoComment,
          search |-> NoSearch, recent |-> <<>>, i |-> 0, shown |-> {}]

Receive(op) == [NoReq EXCEPT !.op = op]

\* return res.status(code)...
Respond(r, code) == [r EXCEPT !.pc = "done", !.status = code]

\* No response is waiting to be sent.
Quiet == \A x \in Slots : reqs[x].pc # "done"

Free(s) == Quiet /\ reqs[s].pc = "idle"

At(s, op, pc) == Quiet /\ reqs[s].op = op /\ reqs[s].pc = pc

\* The slots after slot s took a step to r
Step(s, r) == [reqs EXCEPT ![s] = r]

\* res.send / res.json: the response leaves and the request is over.
Deliver(s) ==
    /\ reqs[s].pc = "done"
    /\ reqs' = [reqs EXCEPT ![s] = NoReq]
    /\ UNCHANGED <<dbVars, now, mails, sessions>>
    /\ UNCHANGED socialVars

\* Rows a request may still create
pending(r) ==
    CASE r.op = "registerUser" /\ r.pc = "createUser" -> 2
      [] r.op = "registerUser" /\ r.pc = "createToken" -> 1
      [] r.op = "resetPasswordRequest" /\ r.pc = "create" -> 1
      [] r.op = "sendAccountDeleteEmail" /\ r.pc = "create" -> 1
      [] r.op = "authorizeUserWithProvider" /\ r.pc \in {"findFirst", "create"} -> 1
      [] OTHER -> 0

RECURSIVE pendingUpTo(_)
pendingUpTo(n) == IF n = 0 THEN 0 ELSE pending(reqs[n]) + pendingUpTo(n - 1)

\* A request that may create n rows is received only while the store has room
\* for them among MaxRows rows.
Room(n) == nextId + pendingUpTo(NumSlots) + n <= MaxRows + 1

\* Requests in flight that may still sign a credential
signing == {s \in Slots : reqs[s].op \in {"registerUser", "authorizeUserWithProvider"}
                           /\ reqs[s].pc # "done"}

\* A request that may sign a credential is received only below the bound.
MaySign == Cardinality(sessions) + Cardinality(signing) < MaxSessions

\* loginUser signs a credential only below the bound.
LoginMaySign(s) == reqs'[s].status = 200 => MaySign

Init ==
    /\ users = {}
    /\ activateTokens = {}
    /\ passwordResetTokens = {}
    /\ deleteTokens = {}
    /\ nextId = 1
    /\ now = 0
    /\ mails = {}
    /\ sessions = {}
    /\ reqs = [s \in Slots |-> NoReq]
    /\ usernames = <<>>
    /\ blogs = {}
    /\ follows = {}
    /\ notifications = {}
    /\ completed = {}
    /\ categories = {}
    /\ categoryOnBlogs = {}
    /\ lists = {}
    /\ comments = {}
    /\ searches = {}

\* Time passes between any two steps.
Tick ==
    /\ Quiet
    /\ \E t \in Instants : t > now /\ now' = t
    /\ UNCHANGED <<dbVars, mails, sessions, reqs>>
    /\ UNCHANGED socialVars

----------------------------------------------------------------------------
(* sendMail (lib/nodemailer) *)

\* transporter.sendMail(mailOptions, callback) is called: the message is handed
\* to the transport and the handler awaits the callback.
sendMail(kind, to, link) ==
    mails \cup {[kind |-> kind, to |-> to, link |-> link]}

\* What the transport told the callback: (err, response)
callback(ok) == IF ok THEN "sent" ELSE "failed"

\* The promise sendMail awaits ignores every failure: it always resolves.
sendMailSwallowsError(ok) == "resolved"

\* if (err) reject(err) else resolve(response): where the awaiting handler goes on
sendMailOutcome(ok) == IF ok THEN "resolved" ELSE "rejected"

----------------------------------------------------------------------------
(* registerUser: POST /api/register *)

\* validation, db.user.findFirst({ email }), the password policy, bcrypt.hash
registerUser(s) ==
    /\ Free(s)
    /\ \E inp \in RegisterInputs :
          LET email == inp[1]
              password == inp[2]
              r == [Receive("registerUser") EXCEPT !.email = email, !.password = password]
          IN  reqs' = Step(s,
                IF email = "" \/ password = "" THEN Respond(r, 400)
                ELSE IF ~emailRegexTest(email) THEN Respond(r, 422)
                ELSE IF findUserByEmail(email).id # 0 THEN Respond(r, 400)
                ELSE IF ~passwordRegexTest(password) THEN Respond(r, 422)
                ELSE [r EXCEPT !.pc = "createUser"])
    /\ UNCHANGED <<dbVars, now, mails, sessions>>
    /\ UNCHANGED socialVars

\* db.user.create({ data: { email, hashedPassword } }); email is @unique
registerUser_createUser(s) ==
    /\ At(s, "registerUser", "createUser")
    /\ LET r == reqs[s] IN
       IF emailTaken(r.email)
       THEN \* unique constraint violation: caught, 500
            /\ reqs' = Step(s, Respond(r, 500))
            /\ UNCHANGED <<users, nextId>>
       ELSE /\ users' = users \cup {[id |-> nextId, email |-> r.email,
                                      isEmailVerified |-> FALSE,
                                      hashedPassword |-> bcryptHash(r.password),
                                      provider |-> "DEFAULT"]}
            /\ nextId' = nextId + 1
            /\ reqs' = Step(s, [r EXCEPT !.pc = "createToken", !.uid = nextId])
    /\ UNCHANGED <<activateTokens, passwordResetTokens, deleteTokens, now, mails,
                   sessions>>
    /\ UNCHANGED socialVars

\* db.activateToken.create, then sendMail with the activation link
registerUser_createToken(s) ==
    /\ At(s, "registerUser", "createToken")
    /\ LET r == reqs[s] IN
       IF findUserById(r.uid).id = 0
       THEN \* foreign key violation: caught, 500
            /\ reqs' = Step(s, Respond(r, 500))
            /\ UNCHANGED <<activateTokens, nextId, mails>>
       ELSE LET row == newTokenRow(r.uid) IN
            /\ activateTokens' = activateTokens \cup {row}
            /\ nextId' = nextId + 1
            /\ mails' = sendMail("activate", r.email, row.token)
            /\ reqs' = Step(s, [r EXCEPT !.pc = "sendMail", !.row = row])
    /\ UNCHANGED <<users, passwordResetTokens, deleteTokens, now, sessions>>
    /\ UNCHANGED socialVars

\* the mail callback, then generateToken and 201, or the catch block
registerUser_sendMail(s) ==
    /\ At(s, "registerUser", "sendMail")
    /\ \E ok \in BOOLEAN :
          LET r == reqs[s] IN
          IF sendMailOutcome(ok) = "resolved"
          THEN /\ sessions' = sessions \cup {generateToken(r.uid)}
               /\ reqs' = Step(s, [Respond(r, 201) EXCEPT !.sess = generateToken(r.uid),
                                                          !.mail = callback(ok)])
          ELSE /\ reqs' = Step(s, [Respond(r, 500) EXCEPT !.mail = callback(ok)])
               /\ UNCHANGED sessions
    /\ UNCHANGED <<dbVars, now, mails>>
    /\ UNCHANGED socialVars

----------------------------------------------------------------------------
(* activateAccount: POST /api/activate/:token *)

\* An update keyed by the token row's own id
activatedUserByTokenId(row) == findUserById(row.id)

\* where: { id: token.userId }: the user activateAccount reads and updates
activatedUser(row) == findUserById(row.userId)

\* db.activateToken.findUnique({ where: { token } })
activateAccount(s) ==
    /\ Free(s)
    /\ \E token \in TokenInputs :
          LET r   == [Receive("activateAccount") EXCEPT !.token = token, !.at = now]
              row == findActivateToken(token)
          IN  reqs' = Step(s,
                IF row.id = 0 THEN Respond(r, 400)
                ELSE [r EXCEPT !.pc = "findFirst", !.row = row])
    /\ UNCHANGED <<dbVars, now, mails, sessions>>
    /\ UNCHANGED socialVars

\* db.user.findFirst({ where: { id: token.userId, isEmailVerified: true } })
activateAccount_findFirst(s) ==
    /\ At(s, "activateAccount", "findFirst")
    /\ LET r == reqs[s]
           u == activatedUser(r.row)
       IN  reqs' = Step(s,
             IF u.id # 0 /\ u.isEmailVerified THEN Respond(r, 400)
             ELSE [r EXCEPT !.pc = "update"])
    /\ UNCHANGED <<dbVars, now, mails, sessions>>
    /\ UNCHANGED socialVars

\* db.user.update({ where: { id: token.userId }, data: { isEmailVerified: true } })
activateAccount_update(s) ==
    /\ At(s, "activateAccount", "update")
    /\ LET r == reqs[s]
           u == activatedUser(r.row)
       IN  IF u.id = 0
           THEN \* record to update not found: caught, 500
                /\ reqs' = Step(s, Respond(r, 500))
                /\ UNCHANGED users
           ELSE /\ users' = (users \ {u}) \cup {[u EXCEPT !.isEmailVerified = TRUE]}
                /\ reqs' = Step(s, [Respond(r, 200) EXCEPT !.uid = u.id,
                                                           !.prior = u.isEmailVerified])
    /\ UNCHANGED <<activateTokens, passwordResetTokens, deleteTokens, nextId, now,
                   mails, sessions>>
    /\ UNCHANGED socialVars

----------------------------------------------------------------------------
(* loginUser: POST /api/login *)

\* A comparison that is not awaited: the pending promise is truthy.
bcryptCompareNotAwaited(p, h) == TRUE

\* bcrypt.compare(password, user.hashedPassword)
bcryptCompare(p, h) == h = bcryptHash(p)

\* if (user.provider != "DEFAULT" || !user.hashedPassword)
signedUpWithProvider(u) == u.provider # "DEFAULT" \/ u.hashedPassword = NoHash

\* validation, db.user.findFirst({ email }), bcrypt.compare, generateToken
loginUser(s) ==
    /\ Free(s)
    /\ \E inp \in LoginInputs :
          LET email == inp[1]
              password == inp[2]
              r == [Receive("loginUser") EXCEPT !.email = email, !.password = password]
              u == findUserByEmail(email)
          IN  IF email = "" \/ password = ""
              THEN reqs' = Step(s, Respond(r, 400)) /\ UNCHANGED sessions
              ELSE IF ~emailRegexTest(email)
              THEN reqs' = Step(s, Respond(r, 422)) /\ UNCHANGED sessions
              ELSE IF u.id = 0
              THEN reqs' = Step(s, Respond(r, 400)) /\ UNCHANGED sessions
              ELSE IF signedUpWithProvider(u)
              THEN reqs' = Step(s, Respond(r, 400)) /\ UNCHANGED sessions
              ELSE IF ~bcryptCompare(password, u.hashedPassword)
              THEN reqs' = Step(s, Respond(r, 400)) /\ UNCHANGED sessions
              ELSE /\ sessions' = sessions \cup {generateToken(u.id)}
                   /\ reqs' = Step(s, [Respond(r, 200) EXCEPT !.uid = u.id,
                                                         !.sess = generateToken(u.id)])
    /\ UNCHANGED <<dbVars, now, mails>>
    /\ UNCHANGED socialVars

----------------------------------------------------------------------------
(* resetPasswordRequest: POST /api/user/reset-password *)

\* validation, db.user.findUnique({ email }), the provider check
resetPasswordRequest(s) ==
    /\ Free(s)
    /\ \E email \in EmailInputs :
          LET r == [Receive("resetPasswordRequest") EXCEPT !.email = email]
              u == findUserByEmail(email)
          IN  reqs' = Step(s,
                IF email = "" THEN Respond(r, 400)
                ELSE IF ~emailRegexTest(email) THEN Respond(r, 422)
                ELSE IF u.id = 0 THEN Respond(r, 404)
                ELSE IF u.provider # "DEFAULT" THEN Respond(r, 404)
                ELSE [r EXCEPT !.pc = "create", !.uid = u.id])
    /\ UNCHANGED <<dbVars, now, mails, sessions>>
    /\ UNCHANGED socialVars

\* An issue that removes the tokens the user was issued before
reissuedResetToken(row) ==
    {x \in passwordResetTokens : x.userId # row.userId} \cup {row}

\* db.passwordResetToken.create({ data: { token, userId } }): one more row
issuedResetToken(row) == passwordResetTokens \cup {row}

\* db.passwordResetToken.create, then sendMail with the reset link
resetPasswordRequest_create(s) ==
    /\ At(s, "resetPasswordRequest", "create")
    /\ LET r == reqs[s] IN
       IF findUserById(r.uid).id = 0
       THEN \* foreign key violation: caught, 500
            /\ reqs' = Step(s, Respond(r, 500))
            /\ UNCHANGED <<passwordResetTokens, nextId, mails>>
       ELSE LET row == newTokenRow(r.uid) IN
            /\ passwordResetTokens' = issuedResetToken(row)
            /\ nextId' = nextId + 1
            /\ mails' = sendMail("reset-password", r.email, row.token)
            /\ reqs' = Step(s, [r EXCEPT !.pc = "sendMail", !.row = row])
    /\ UNCHANGED <<users, activateTokens, deleteTokens, now, sessions>>
    /\ UNCHANGED socialVars

\* the mail callback, then 200, or the catch block
resetPasswordRequest_sendMail(s) ==
    /\ At(s, "resetPasswordRequest", "sendMail")
    /\ \E ok \in BOOLEAN :
          LET r == reqs[s] IN
          reqs' = Step(s, IF sendMailOutcome(ok) = "resolved"
                          THEN [Respond(r, 200) EXCEPT !.mail = callback(ok)]
                          ELSE [Respond(r, 500) EXCEPT !.mail = callback(ok)])
    /\ UNCHANGED <<dbVars, now, mails, sessions>>
    /\ UNCHANGED socialVars

----------------------------------------------------------------------------
(* resetAccountPassword: POST /api/user/reset-password/:token *)

\* (new Date().getTime() - new Date(token.createdAt).getTime()) / (1000 * 3600) > 24
resetTokenExpired(row) == now - row.createdAt > TokenTtl

\* the password check, db.passwordResetToken.findUnique({ token }), the expiry
\* check, the password policy, bcrypt.hash
resetAccountPassword(s) ==
    /\ Free(s)
    /\ \E token \in TokenInputs, password \in ResetPasswords :
          LET r   == [Receive("resetAccountPassword") EXCEPT
                        !.token = token, !.password = password, !.at = now]
              row == findPasswordResetToken(token)
          IN  reqs' = Step(s,
                IF password = "" THEN Respond(r, 400)
                ELSE IF row.id = 0 THEN Respond(r, 400)
                ELSE IF resetTokenExpired(row) THEN Respond([r EXCEPT !.row = row], 400)
                ELSE IF ~passwordRegexTest(password) THEN Respond([r EXCEPT !.row = row], 422)
                ELSE [r EXCEPT !.pc = "updateUser", !.row = row])
    /\ UNCHANGED <<dbVars, now, mails, sessions>>
    /\ UNCHANGED socialVars

\* where: { id: token.id }
resetUserByTokenId(row) == findUserById(row.id)

\* where: { id: token.userId }
resetUser(row) == findUserById(row.userId)

\* db.user.update({ where: { id: token.userId }, data: { hashedPassword } })
resetAccountPassword_updateUser(s) ==
    /\ At(s, "resetAccountPassword", "updateUser")
    /\ LET r == reqs[s]
           u == resetUser(r.row)
       IN  IF u.id = 0
           THEN \* record to update not found: caught, 500
                /\ reqs' = Step(s, Respond(r, 500))
                /\ UNCHANGED users
           ELSE /\ users' = (users \ {u}) \cup
                               {[u EXCEPT !.hashedPassword = bcryptHash(r.password)]}
                /\ reqs' = Step(s, [r EXCEPT !.pc = "updateToken", !.uid = u.id])
    /\ UNCHANGED <<activateTokens, passwordResetTokens, deleteTokens, nextId, now,
                   mails, sessions>>
    /\ UNCHANGED socialVars

\* db.passwordResetToken.update({ where: { id: token.id }, data: { resetAt: new Date() } })
resetAccountPassword_updateToken(s) ==
    /\ At(s, "resetAccountPassword", "updateToken")
    /\ LET r == reqs[s] IN
       IF \E row \in passwordResetTokens : row.id = r.row.id
       THEN LET row == CHOOSE x \in passwordResetTokens : x.id = r.row.id IN
            /\ passwordResetTokens' =
                  (passwordResetTokens \ {row}) \cup {[row EXCEPT !.usedAt = now]}
            /\ reqs' = Step(s, [Respond(r, 200) EXCEPT !.prior = (row.usedAt # -1)])
       ELSE \* record to update not found: caught, 500
            /\ reqs' = Step(s, Respond(r, 500))
            /\ UNCHANGED passwordResetTokens
    /\ UNCHANGED <<users, activateTokens, deleteTokens, nextId, now, mails, sessions>>
    /\ UNCHANGED socialVars

----------------------------------------------------------------------------
(* authorizeUserWithProvider: POST /api/oauth *)

ProviderInputs == {"", "Google", "facebook"}

\* provider.toLowerCase()
toLowerCase(p) == IF p = "Google" THEN "google" ELSE p

\* What Google's userinfo endpoint answers for an access token: the email it
\* has verified, or an error status (axios throws).
UserinfoAnswers == Emails \cup {"error"}

\* validation, the provider name, axios.get(userinfo)
authorizeUserWithProvider(s) ==
    /\ Free(s)
    /\ \E token \in {"", "access-token"}, provider \in ProviderInputs,
          answer \in UserinfoAnswers :
          LET r == Receive("authorizeUserWithProvider") IN
          reqs' = Step(s,
            IF token = "" \/ provider = "" THEN Respond(r, 400)
            ELSE IF toLowerCase(provider) # "google" THEN Respond(r, 400)
            ELSE IF answer = "error" THEN Respond(r, 500)
            ELSE [r EXCEPT !.pc = "findFirst", !.email = answer])
    /\ UNCHANGED <<dbVars, now, mails, sessions>>
    /\ UNCHANGED socialVars

\* db.user.findFirst({ where: { email: userRes.data.email } })
authorizeUserWithProvider_findFirst(s) ==
    /\ At(s, "authorizeUserWithProvider", "findFirst")
    /\ LET r == reqs[s]
           u == findUserByEmail(r.email)
       IN  IF u.id # 0
           THEN /\ sessions' = sessions \cup {generateToken(u.id)}
                /\ reqs' = Step(s, [Respond(r, 200) EXCEPT !.uid = u.id,
                                                           !.sess = generateToken(u.id)])
           ELSE /\ reqs' = Step(s, [r EXCEPT !.pc = "create"])
                /\ UNCHANGED sessions
    /\ UNCHANGED <<dbVars, now, mails>>
    /\ UNCHANGED socialVars

\* db.user.create({ data: { email, provider: "GOOGLE", isEmailVerified: true } })
authorizeUserWithProvider_create(s) ==
    /\ At(s, "authorizeUserWithProvider", "create")
    /\ LET r == reqs[s] IN
       IF emailTaken(r.email)
       THEN \* unique constraint violation: caught, 500
            /\ reqs' = Step(s, Respond(r, 500))
            /\ UNCHANGED <<users, nextId, sessions>>
       ELSE /\ users' = users \cup {[id |-> nextId, email |-> r.email,
                                      isEmailVerified |-> TRUE,
                                      hashedPassword |-> NoHash,
                                      provider |-> "GOOGLE"]}
            /\ nextId' = nextId + 1
            /\ sessions' = sessions \cup {generateToken(nextId)}
            /\ reqs' = Step(s, [Respond(r, 201) EXCEPT !.uid = nextId, !.prior = TRUE,
                                                       !.sess = generateToken(nextId)])
    /\ UNCHANGED <<activateTokens, passwordResetTokens, deleteTokens, now, mails>>
    /\ UNCHANGED socialVars

----------------------------------------------------------------------------
(* protect (middleware/authMiddleware) *)

\* The Authorization headers a client can send: none, a credential the server
\* signed, or one signed with another secret.
CredInputs == {NoCred, forged(1)} \cup sessions

\* A middleware that takes the user from the credential and reads no row
protectByCredential(cred) ==
    IF cred = NoCred THEN NoUser
    ELSE IF ~jwtVerify(cred) THEN NoUser
    ELSE [NoUser EXCEPT !.id = cred.id]

\* The user protect puts in req.user, or NoUser when it answers 401:
\* no Bearer header, jwt.verify throws, or db.user.findUnique finds nobody.
protect(cred) ==
    IF cred = NoCred THEN NoUser
    ELSE IF ~jwtVerify(cred) THEN NoUser
    ELSE findUserById(cred.id)

----------------------------------------------------------------------------
(* getUser: GET /api/me *)

\* protect, then the handler answers from req.user
getUser(s) ==
    /\ Free(s)
    /\ \E cred \in CredInputs :
          LET r == [Receive("getUser") EXCEPT !.cred = cred, !.at = now]
              u == protect(cred)
          IN  reqs' = Step(s,
                IF u.id = 0 THEN Respond(r, 401)
                ELSE [Respond(r, 200) EXCEPT !.user = u.id, !.uid = u.id])
    /\ UNCHANGED <<dbVars, now, mails, sessions>>
    /\ UNCHANGED socialVars

----------------------------------------------------------------------------
(* sendAccountDeleteEmail: DELETE /api/user *)

\* protect
sendAccountDeleteEmail(s) ==
    /\ Free(s)
    /\ \E cred \in CredInputs :
          LET r == [Receive("sendAccountDeleteEmail") EXCEPT !.cred = cred, !.at = now]
              u == protect(cred)
          IN  reqs' = Step(s,
                IF u.id = 0 THEN Respond(r, 401)
                ELSE [r EXCEPT !.pc = "create", !.user = u.id, !.email = u.email])
    /\ UNCHANGED <<dbVars, now, mails, sessions>>
    /\ UNCHANGED socialVars

\* db.deleteToken.create, then sendMail with the confirmation link
sendAccountDeleteEmail_create(s) ==
    /\ At(s, "sendAccountDeleteEmail", "create")
    /\ LET r == reqs[s] IN
       IF findUserById(r.user).id = 0
       THEN \* foreign key violation: caught, 500
            /\ reqs' = Step(s, Respond(r, 500))
            /\ UNCHANGED <<deleteTokens, nextId, mails>>
       ELSE LET row == newTokenRow(r.user) IN
            /\ deleteTokens' = deleteTokens \cup {row}
            /\ nextId' = nextId + 1
            /\ mails' = sendMail("delete-account", r.email, row.token)
            /\ reqs' = Step(s, [r EXCEPT !.pc = "sendMail", !.row = row])
    /\ UNCHANGED <<users, activateTokens, passwordResetTokens, now, sessions>>
    /\ UNCHANGED socialVars

\* the mail callback, then 200, or the catch block
sendAccountDeleteEmail_sendMail(s) ==
    /\ At(s, "sendAccountDeleteEmail", "sendMail")
    /\ \E ok \in BOOLEAN :
          LET r == reqs[s] IN
          reqs' = Step(s, IF sendMailOutcome(ok) = "resolved"
                          THEN [Respond(r, 200) EXCEPT !.mail = callback(ok)]
                          ELSE [Respond(r, 500) EXCEPT !.mail = callback(ok)])
    /\ UNCHANGED <<dbVars, now, mails, sessions>>
    /\ UNCHANGED socialVars

----------------------------------------------------------------------------
(* deleteUser: DELETE /api/user/:token *)

\* deleteToken.createdAt < new Date(Date.now() - 24 * 60 * 60 * 1000)
deleteTokenExpired(row) == row.createdAt < now - TokenTtl

\* The schema's relations to User: ActivateToken and PasswordResetToken rows
\* are deleted with their user (onDelete: Cascade); AccountDeleteToken names no
\* referential action, so a row of it keeps its user from being deleted, and
\* so does a Blog row through its author.
deleteRestricted(uid) ==
    \/ \E row \in deleteTokens : row.userId = uid
    \/ \E b \in blogs : b.authorId = uid

\* A check that lets every requester use every token
boundToNobody(row, requester) == FALSE

\* deleteToken.userId != id
boundToAnother(row, requester) == row.userId # requester

\* protect
deleteUser(s) ==
    /\ Free(s)
    /\ \E cred \in CredInputs, token \in TokenInputs :
          LET r == [Receive("deleteUser") EXCEPT !.cred = cred, !.token = token]
              u == protect(cred)
          IN  reqs' = Step(s,
                IF u.id = 0 THEN Respond(r, 401)
                ELSE [r EXCEPT !.pc = "findUnique", !.user = u.id])
    /\ UNCHANGED <<dbVars, now, mails, sessions>>
    /\ UNCHANGED socialVars

\* db.deleteToken.findUnique({ where: { token } }), the expiry and owner checks
deleteUser_findUnique(s) ==
    /\ At(s, "deleteUser", "findUnique")
    /\ LET r   == [reqs[s] EXCEPT !.at = now]
           row == findDeleteToken(r.token)
       IN  reqs' = Step(s,
             IF row.id = 0 THEN Respond(r, 404)
             ELSE IF deleteTokenExpired(row) THEN Respond([r EXCEPT !.row = row], 400)
             ELSE IF boundToAnother(row, r.user) THEN Respond([r EXCEPT !.row = row], 403)
             ELSE [r EXCEPT !.pc = "delete", !.row = row])
    /\ UNCHANGED <<dbVars, now, mails, sessions>>
    /\ UNCHANGED socialVars

\* db.user.delete({ where: { id: deleteToken.userId } })
deleteUser_delete(s) ==
    /\ At(s, "deleteUser", "delete")
    /\ LET r == reqs[s]
           u == findUserById(r.row.userId)
       IN  IF u.id = 0 \/ deleteRestricted(u.id)
           THEN \* record not found, or foreign key violation: caught, 500
                /\ reqs' = Step(s, Respond(r, 500))
                /\ UNCHANGED <<users, activateTokens, passwordResetTokens>>
           ELSE /\ users' = users \ {u}
                /\ activateTokens' = {row \in activateTokens : row.userId # u.id}
                /\ passwordResetTokens' = {row \in passwordResetTokens : row.userId # u.id}
                /\ reqs' = Step(s, [Respond(r, 200) EXCEPT !.uid = u.id])
    /\ UNCHANGED <<deleteTokens, nextId, now, mails, sessions>>
    /\ UNCHANGED socialVars

----------------------------------------------------------------------------
\* One step of the request in slot s, or a new request received in it
Handle(s) ==
    \/ Room(2) /\ MaySign /\ registerUser(s)
    \/ registerUser_createUser(s)
    \/ registerUser_createToken(s)
    \/ registerUser_sendMail(s)
    \/ activateAccount(s)
    \/ activateAccount_findFirst(s)
    \/ activateAccount_update(s)
    \/ loginUser(s) /\ LoginMaySign(s)
    \/ Room(1) /\ resetPasswordRequest(s)
    \/ resetPasswordRequest_create(s)
    \/ resetPasswordRequest_sendMail(s)
    \/ resetAccountPassword(s)
    \/ resetAccountPassword_updateUser(s)
    \/ resetAccountPassword_updateToken(s)
    \/ Room(1) /\ MaySign /\ authorizeUserWithProvider(s)
    \/ authorizeUserWithProvider_findFirst(s)
    \/ authorizeUserWithProvider_create(s)
    \/ getUser(s)
    \/ Room(1) /\ sendAccountDeleteEmail(s)
    \/ sendAccountDeleteEmail_create(s)
    \/ sendAccountDeleteEmail_sendMail(s)
    \/ deleteUser(s)
    \/ deleteUser_findUnique(s)
    \/ deleteUser_delete(s)
    \/ Deliver(s)

\* Requests are handled one at a time, and time passes.
Next == Tick \/ Handle(1)

Spec == Init /\ [][Next]_vars

\* The requests that write user and token rows, handled concurrently with
\* their steps interleaved, within one minute of the clock.
Race(s) ==
    \/ Room(2) /\ MaySign /\ registerUser(s)
    \/ registerUser_createUser(s)
    \/ registerUser_createToken(s)
    \/ registerUser_sendMail(s)
    \/ activateAccount(s)
    \/ activateAccount_findFirst(s)
    \/ activateAccount_update(s)
    \/ Room(1) /\ resetPasswordRequest(s)
    \/ resetPasswordRequest_create(s)
    \/ resetPasswordRequest_sendMail(s)
    \/ resetAccountPassword(s)
    \/ resetAccountPassword_updateUser(s)
    \/ resetAccountPassword_updateToken(s)
    \/ Room(1) /\ MaySign /\ authorizeUserWithProvider(s)
    \/ authorizeUserWithProvider_findFirst(s)
    \/ authorizeUserWithProvider_create(s)
    \/ Deliver(s)

NextRace == \E s \in Slots : Race(s)

SpecRace == Init /\ [][NextRace]_vars

----------------------------------------------------------------------------
(* Password resets of registered accounts *)

MaxResetTokens == 2       \* password-reset tokens issued in one behaviour
MaxResetSessions == 3     \* credentials signed, those of the registrations included

\* Two accounts registered with a password at time 0 (registerUser answered
\* 201 twice): each has its activation token and mail and holds a credential.
Registrants ==
    {[id |-> 1, email |-> "a@x.io", isEmailVerified |-> FALSE,
      hashedPassword |-> bcryptHash("Passw0rd!"), provider |-> "DEFAULT"],
     [id |-> 3, email |-> "b@x.io", isEmailVerified |-> FALSE,
      hashedPassword |-> bcryptHash("Passw0rd!"), provider |-> "DEFAULT"]}

InitReset ==
    /\ users = Registrants
    /\ activateTokens =
          {[id |-> u.id + 1, token |-> u.id + 1, userId |-> u.id, createdAt |-> 0,
            usedAt |-> -1] : u \in Registrants}
    /\ passwordResetTokens = {}
    /\ deleteTokens = {}
    /\ nextId = 5
    /\ now = 0
    /\ mails = {[kind |-> "activate", to |-> u.email, link |-> u.id + 1] : u \in Registrants}
    /\ sessions = {[id |-> u.id, iat |-> 0, sig |-> "ok"] : u \in Registrants}
    /\ reqs = [s \in Slots |-> NoReq]
    /\ usernames = <<>>
    /\ blogs = {}
    /\ follows = {}
    /\ notifications = {}
    /\ completed = {}
    /\ categories = {}
    /\ categoryOnBlogs = {}
    /\ lists = {}
    /\ comments = {}
    /\ searches = {}

\* A reset is requested only while fewer than MaxResetTokens were issued.
ResetRoom == Cardinality(passwordResetTokens) < MaxResetTokens

\* loginUser signs a credential only below the bound.
ResetMaySign(s) == reqs'[s].status = 200 => Cardinality(sessions) < MaxResetSessions

\* One step of a request that resets a password or logs in
Reset(s) ==
    \/ ResetRoom /\ resetPasswordRequest(s)
    \/ resetPasswordRequest_create(s)
    \/ resetPasswordRequest_sendMail(s)
    \/ resetAccountPassword(s)
    \/ resetAccountPassword_updateUser(s)
    \/ resetAccountPassword_updateToken(s)
    \/ loginUser(s) /\ ResetMaySign(s)
    \/ Deliver(s)

\* Requests are handled one at a time, and time passes.
NextReset == Tick \/ Reset(1)

SpecReset == InitReset /\ [][NextReset]_vars

----------------------------------------------------------------------------
(* Blogs, follows and notifications *)

MaxSocialRows == 3        \* blogs and follows created, requests one at a time
MaxRaceRows == 2          \* blogs and follows created, requests interleaved
MaxBlogs == 1             \* blogs in the store together
MaxFanoutRows == 3        \* blogs and follows created while the store may fail

\* Three accounts that signed in through a provider and then chose a username
\* (editUser); each holds a credential signed at that time.
MemberNames == <<"ann", "bob", "cat">>
MemberEmails == <<"a@x.io", "b@x.io", "c@x.io">>
MemberIds == 1..Len(MemberNames)

Members ==
    {[id |-> i, email |-> MemberEmails[i], isEmailVerified |-> TRUE,
      hashedPassword |-> NoHash, provider |-> "GOOGLE"] : i \in MemberIds}

InitSocial ==
    /\ users = Members
    /\ usernames = MemberNames
    /\ activateTokens = {}
    /\ passwordResetTokens = {}
    /\ deleteTokens = {}
    /\ nextId = Len(MemberNames) + 1
    /\ now = 0
    /\ mails = {}
    /\ sessions = {generateToken(i) : i \in MemberIds}
    /\ reqs = [s \in Slots |-> NoReq]
    /\ blogs = {}
    /\ follows = {}
    /\ notifications = {}
    /\ completed = {}
    /\ categories = {}
    /\ categoryOnBlogs = {}
    /\ lists = {}
    /\ comments = {}
    /\ searches = {}

\* The credentials of the members who write blogs, of those who ask for
\* somebody's blog, and of those who follow
AuthorCreds == {c \in sessions : usernames[c.id] = "ann"}
EditorCreds == {c \in sessions : usernames[c.id] \in {"ann", "bob"}}
FollowerCreds == sessions

\* req.body of createBlog and editBlog
Bodies == {[title |-> "T", content |-> "C"], [title |-> "", content |-> "C"],
           [title |-> "T", content |-> ""]}

\* req.params.id: the id of a blog, or of none
BlogIdInputs == {0} \cup {b.blogId : b \in blogs}

\* req.body.categories of editBlog: undefined, an empty list, one name
NoNames == [given |-> TRUE, names |-> <<>>]
CategoryInputs == {NoCategories, NoNames, [given |-> TRUE, names |-> <<"tech">>]}

\* No Category row: findUnique returned null
NoCategory == [id |-> 0, name |-> ""]

\* db.category.findUnique({ where: { name } })
findCategory(name) ==
    IF \E c \in categories : c.name = name
    THEN CHOOSE c \in categories : c.name = name
    ELSE NoCategory

\* req.params.username
NameInputs == {"ann", "zed"}

\* Math.random().toString(36)... : 16 characters, never drawn twice
randomBlogId == nextId

\* db.blog.findUnique({ where: { blogId } })
findBlogByBlogId(blogId) ==
    IF \E b \in blogs : b.blogId = blogId
    THEN CHOOSE b \in blogs : b.blogId = blogId
    ELSE NoBlog

\* db.blog.findUnique({ where: { id } })
findBlogById(id) ==
    IF \E b \in blogs : b.id = id
    THEN CHOOSE b \in blogs : b.id = id
    ELSE NoBlog

\* db.user.findUnique({ where: { username } })
findUserByUsername(name) ==
    IF \E u \in users : usernames[u.id] = name
    THEN CHOOSE u \in users : usernames[u.id] = name
    ELSE NoUser

\* db.follow.findFirst({ where: { userId, followerId } })
findFollow(userId, followerId) ==
    IF \E f \in follows : f.userId = userId /\ f.followerId = followerId
    THEN CHOOSE f \in follows : f.userId = userId /\ f.followerId = followerId
    ELSE NoFollow

\* The rows of a set in the order of their ids
RECURSIVE inOrder(_)
inOrder(rows) ==
    IF rows = {} THEN <<>>
    ELSE LET first == CHOOSE x \in rows : \A y \in rows : x.id <= y.id
         IN  <<first>> \o inOrder(rows \ {first})

\* db.follow.findMany({ where: { userId }, take: 1 })
findOneFollower(userId) ==
    LET all == inOrder({f \in follows : f.userId = userId})
    IN  IF all = <<>> THEN all ELSE <<Head(all)>>

\* db.follow.findMany({ where: { userId } })
findFollowers(userId) == inOrder({f \in follows : f.userId = userId})

\* followUser requests that may still create a row
following == {s \in Slots : reqs[s].op = "followUser" /\ reqs[s].pc \in {"findFirst", "create"}}

\* A request that may create a blog or a follow is received only while the
\* store has room for one of max rows.
SocialRoom(max) ==
    nextId + Cardinality(following) + 1 <= Len(MemberNames) + max + 1

\* A blog is created only while the store holds fewer than MaxBlogs.
BlogRoom == Cardinality(blogs) < MaxBlogs

----------------------------------------------------------------------------
(* createBlog: POST /api/blog *)

\* protect, the required fields, db.blog.create
createBlog(s) ==
    /\ Free(s)
    /\ \E cred \in AuthorCreds, body \in Bodies :
          LET u == protect(cred)
              r == [Receive("createBlog") EXCEPT !.cred = cred, !.user = u.id,
                      !.title = body.title, !.content = body.content]
              b == [id |-> nextId, blogId |-> randomBlogId, title |-> body.title,
                    content |-> body.content, draft |-> TRUE, authorId |-> u.id]
          IN  IF u.id = 0
              THEN reqs' = Step(s, Respond(r, 401)) /\ UNCHANGED <<blogs, nextId>>
              ELSE IF body.title = "" \/ body.content = ""
              THEN reqs' = Step(s, Respond(r, 400)) /\ UNCHANGED <<blogs, nextId>>
              ELSE /\ blogs' = blogs \cup {b}
                   /\ nextId' = nextId + 1
                   /\ reqs' = Step(s, Respond([r EXCEPT !.blog = b], 201))
    /\ UNCHANGED <<accountVars, completed, follows, notifications>>
    /\ UNCHANGED contentVars

----------------------------------------------------------------------------
(* editBlog: PUT /api/blog/:id *)

\* data: { title, content, draft: true }
editedBlogAsDraft(b, title, content) ==
    [b EXCEPT !.title = title, !.content = content, !.draft = TRUE]

\* data: { title, content, imageUrl }: draft is not among the columns written
editedBlog(b, title, content) == [b EXCEPT !.title = title, !.content = content]

\* protect, db.blog.findUnique({ blogId }), the author check
editBlog(s) ==
    /\ Free(s)
    /\ \E cred \in EditorCreds, blogId \in BlogIdInputs, body \in Bodies,
          names \in CategoryInputs :
          LET u == protect(cred)
              r == [Receive("editBlog") EXCEPT !.cred = cred, !.user = u.id,
                      !.blogId = blogId, !.title = body.title,
                      !.content = body.content, !.categories = names]
              b == findBlogByBlogId(blogId)
          IN  reqs' = Step(s,
                IF u.id = 0 THEN Respond(r, 401)
                ELSE IF b.id = 0 THEN Respond(r, 404)
                ELSE IF b.authorId # u.id THEN Respond([r EXCEPT !.blog = b], 403)
                ELSE [r EXCEPT !.pc = "update", !.blog = b])
    /\ UNCHANGED <<accountVars, completed, nextId, blogs, follows, notifications>>
    /\ UNCHANGED contentVars

\* db.blog.update({ where: { id: blog.id }, data: { title, content, imageUrl } })
editBlog_update(s) ==
    /\ At(s, "editBlog", "update")
    /\ LET r == reqs[s]
           b == findBlogById(r.blog.id)
       IN  IF b.id = 0
           THEN \* record to update not found: caught, 500
                /\ reqs' = Step(s, Respond(r, 500))
                /\ UNCHANGED blogs
           ELSE /\ blogs' = (blogs \ {b}) \cup {editedBlog(b, r.title, r.content)}
                /\ reqs' = Step(s, [r EXCEPT !.pc = "deleteMany"])
    /\ UNCHANGED <<accountVars, completed, nextId, follows, notifications>>
    /\ UNCHANGED contentVars

\* db.categoryOnBlogs.deleteMany({ where: { blogId: blog.id } }), then
\* categories.length: a TypeError when the body names no categories
editBlog_deleteMany(s) ==
    /\ At(s, "editBlog", "deleteMany")
    /\ LET r == reqs[s] IN
       /\ categoryOnBlogs' = {x \in categoryOnBlogs : x.blogId # r.blog.id}
       /\ reqs' = Step(s,
             IF ~r.categories.given THEN Respond(r, 500)
             ELSE IF Len(r.categories.names) = 0 THEN Respond(r, 200)
             ELSE [r EXCEPT !.pc = "findUnique"])
    /\ UNCHANGED <<accountVars, completed, nextId, blogs, follows, notifications>>
    /\ UNCHANGED <<categories, lists, comments, searches>>

\* One turn of the loop: db.category.findUnique({ where: { name: categories[i] } })
editBlog_findUnique(s) ==
    /\ At(s, "editBlog", "findUnique")
    /\ LET r == reqs[s]
           c == findCategory(Head(r.categories.names))
       IN  reqs' = Step(s,
             IF c.id = 0 THEN [r EXCEPT !.pc = "createCategory"]
             ELSE [r EXCEPT !.pc = "createOnBlogs", !.category = c.id])
    /\ UNCHANGED <<accountVars, completed, nextId, blogs, follows, notifications>>
    /\ UNCHANGED contentVars

\* db.category.create({ data: { name: categories[i] } }); name is @unique
editBlog_createCategory(s) ==
    /\ At(s, "editBlog", "createCategory")
    /\ LET r    == reqs[s]
           name == Head(r.categories.names)
       IN  IF findCategory(name).id # 0
           THEN \* unique constraint violation: caught, 500
                /\ reqs' = Step(s, Respond(r, 500))
                /\ UNCHANGED <<categories, nextId>>
           ELSE /\ categories' = categories \cup {[id |-> nextId, name |-> name]}
                /\ nextId' = nextId + 1
                /\ reqs' = Step(s, [r EXCEPT !.pc = "createOnBlogs", !.category = nextId])
    /\ UNCHANGED <<accountVars, completed, blogs, follows, notifications>>
    /\ UNCHANGED <<categoryOnBlogs, lists, comments, searches>>

\* db.categoryOnBlogs.create({ data: { blogId: blog.id, categoryId: category.id } });
\* @@unique([categoryId, blogId]); then the next turn of the loop, or 200
editBlog_createOnBlogs(s) ==
    /\ At(s, "editBlog", "createOnBlogs")
    /\ LET r    == reqs[s]
           rest == Tail(r.categories.names)
           q    == [r EXCEPT !.categories.names = rest]
       IN  IF \/ findBlogById(r.blog.id).id = 0
              \/ \E x \in categoryOnBlogs :
                    x.categoryId = r.category /\ x.blogId = r.blog.id
           THEN \* foreign key or unique constraint violation: caught, 500
                /\ reqs' = Step(s, Respond(r, 500))
                /\ UNCHANGED <<categoryOnBlogs, nextId>>
           ELSE /\ categoryOnBlogs' = categoryOnBlogs \cup
                      {[id |-> nextId, categoryId |-> r.category, blogId |-> r.blog.id]}
                /\ nextId' = nextId + 1
                /\ reqs' = Step(s, IF rest = <<>> THEN Respond(q, 200)
                                   ELSE [q EXCEPT !.pc = "findUnique"])
    /\ UNCHANGED <<accountVars, completed, blogs, follows, notifications>>
    /\ UNCHANGED <<categories, lists, comments, searches>>

----------------------------------------------------------------------------
(* deleteBlog: DELETE /api/blog/:id *)

\* protect, db.blog.findUnique({ id }), the author check
deleteBlog(s) ==
    /\ Free(s)
    /\ \E cred \in EditorCreds, id \in BlogIdInputs :
          LET u == protect(cred)
              r == [Receive("deleteBlog") EXCEPT !.cred = cred, !.user = u.id,
                      !.blogId = id]
              b == findBlogById(id)
          IN  reqs' = Step(s,
                IF u.id = 0 THEN Respond(r, 401)
                ELSE IF b.id = 0 THEN Respond(r, 404)
                ELSE IF b.authorId # u.id THEN Respond([r EXCEPT !.blog = b], 403)
                ELSE [r EXCEPT !.pc = "delete", !.blog = b])
    /\ UNCHANGED <<accountVars, completed, nextId, blogs, follows, notifications>>
    /\ UNCHANGED contentVars

\* db.blog.delete({ where: { id } }); the relations of Notification, List,
\* Comment and CategoryOnBlogs to Blog are onDelete: Cascade
deleteBlog_delete(s) ==
    /\ At(s, "deleteBlog", "delete")
    /\ LET r == reqs[s]
           b == findBlogById(r.blogId)
       IN  IF b.id = 0
           THEN \* record to delete does not exist: caught, 500
                /\ reqs' = Step(s, Respond(r, 500))
                /\ UNCHANGED <<blogs, notifications, lists, comments, categoryOnBlogs>>
           ELSE /\ blogs' = blogs \ {b}
                /\ notifications' = {n \in notifications : n.blogId # b.id}
                /\ lists' = {x \in lists : x.blogId # b.id}
                /\ comments' = {x \in comments : x.blogId # b.id}
                /\ categoryOnBlogs' = {x \in categoryOnBlogs : x.blogId # b.id}
                /\ reqs' = Step(s, Respond(r, 200))
    /\ UNCHANGED <<accountVars, completed, nextId, follows, categories, searches>>

----------------------------------------------------------------------------
(* publishBlog: PATCH /api/blog/:id *)

\* A lookup that does not ask for draft: true
findDraftOrPublished(blogId) == findBlogByBlogId(blogId)

\* db.blog.findUnique({ where: { blogId, draft: true } })
findDraft(blogId) ==
    LET b == findBlogByBlogId(blogId) IN IF b.draft THEN b ELSE NoBlog

\* protect, the lookup of the draft, the author check, the title and content check
publishBlog(s) ==
    /\ Free(s)
    /\ \E cred \in EditorCreds, blogId \in BlogIdInputs :
          LET u == protect(cred)
              r == [Receive("publishBlog") EXCEPT !.cred = cred, !.user = u.id,
                      !.blogId = blogId]
              b == findDraft(blogId)
          IN  reqs' = Step(s,
                IF u.id = 0 THEN Respond(r, 401)
                ELSE IF b.id = 0 THEN Respond(r, 404)
                ELSE IF b.authorId # u.id THEN Respond([r EXCEPT !.blog = b], 403)
                ELSE IF b.title = "" \/ b.content = ""
                     THEN Respond([r EXCEPT !.blog = b], 400)
                ELSE [r EXCEPT !.pc = "update", !.blog = b])
    /\ UNCHANGED <<accountVars, completed, nextId, blogs, follows, notifications>>
    /\ UNCHANGED contentVars

\* An update that leaves the row as it was
publishedBlogStillDraft(b) == b

\* data: { draft: false }
publishedBlog(b) == [b EXCEPT !.draft = FALSE]

\* return res.status(200).json(rest): the client learns that the blog is
\* published; at is the id the next row created will get
sent(r, at) == completed \cup {[blog |-> r.blog.id, author |-> r.blog.authorId, at |-> at]}

\* db.blog.update({ where: { blogId }, data: { draft: false } })
publishBlog_update(s) ==
    /\ At(s, "publishBlog", "update")
    /\ LET r == reqs[s]
           b == findBlogByBlogId(r.blogId)
       IN  IF b.id = 0
           THEN \* record to update not found: caught, 500
                /\ reqs' = Step(s, Respond(r, 500))
                /\ UNCHANGED blogs
           ELSE /\ blogs' = (blogs \ {b}) \cup {publishedBlog(b)}
                /\ reqs' = Step(s, [r EXCEPT !.pc = "findMany"])
    /\ UNCHANGED <<accountVars, completed, nextId, follows, notifications>>
    /\ UNCHANGED contentVars

\* db.follow.findMany({ where: { userId: blog.authorId } })
publishBlog_findMany(s) ==
    /\ At(s, "publishBlog", "findMany")
    /\ LET r         == reqs[s]
           followers == findFollowers(r.blog.authorId)
       IN  IF Len(followers) > 0
           THEN /\ reqs' = Step(s, [r EXCEPT !.pc = "create", !.followers = followers])
                /\ UNCHANGED completed
           ELSE /\ reqs' = Step(s, Respond(r, 200))
                /\ completed' = sent(r, nextId)
    /\ UNCHANGED <<accountVars, nextId, blogs, follows, notifications>>
    /\ UNCHANGED contentVars

\* One turn of the loop:
\* db.notification.create({ data: { blogId: blog.id, userId: followers[i].followerId } })
publishBlog_create(s) ==
    /\ At(s, "publishBlog", "create")
    /\ LET r == reqs[s]
           i == Cardinality(r.made) + 1
           n == [id |-> nextId, userId |-> r.followers[i].followerId,
                 blogId |-> r.blog.id, seen |-> FALSE]
       IN  IF findBlogById(n.blogId).id = 0 \/ findUserById(n.userId).id = 0
           THEN \* foreign key violation: caught, 500
                /\ reqs' = Step(s, Respond(r, 500))
                /\ UNCHANGED <<notifications, nextId, completed>>
           ELSE /\ notifications' = notifications \cup {n}
                /\ nextId' = nextId + 1
                /\ LET q == [r EXCEPT !.made = @ \cup {n.id}] IN
                   IF i < Len(r.followers)
                   THEN reqs' = Step(s, q) /\ UNCHANGED completed
                   ELSE reqs' = Step(s, Respond(q, 200)) /\ completed' = sent(r, nextId + 1)
    /\ UNCHANGED <<accountVars, blogs, follows>>
    /\ UNCHANGED contentVars

\* A catch block that deletes the rows the loop created
undoneFanOut(r) == {n \in notifications : n.id \notin r.made}

\* catch (error): the rows the loop created before the error stay
failedFanOut(r) == notifications

\* One turn of the loop in which the store fails the write: the rejected
\* await throws, the catch block logs the error and answers 500.
publishBlog_createFails(s) ==
    /\ At(s, "publishBlog", "create")
    /\ LET r == reqs[s] IN
       /\ notifications' = failedFanOut(r)
       /\ reqs' = Step(s, Respond(r, 500))
    /\ UNCHANGED <<accountVars, completed, nextId, blogs, follows>>
    /\ UNCHANGED contentVars

----------------------------------------------------------------------------
(* followUser: POST /api/follow/:username *)

\* A check that lets everybody through
followsNobody(target, requester) == FALSE

\* user.id == req.user.id
followsSelf(target, requester) == target.id = requester.id

\* A Follow table without @@unique([userId, followerId])
edgeNotUnique(userId, followerId) == FALSE

\* @@unique([userId, followerId]): db.follow.create throws when the pair exists
edgeTaken(userId, followerId) == findFollow(userId, followerId).id # 0

\* protect, db.user.findUnique({ username }), the check against oneself
followUser(s) ==
    /\ Free(s)
    /\ \E cred \in FollowerCreds, name \in NameInputs :
          LET u == protect(cred)
              r == [Receive("followUser") EXCEPT !.cred = cred, !.user = u.id,
                      !.name = name]
              target == findUserByUsername(name)
          IN  reqs' = Step(s,
                IF u.id = 0 THEN Respond(r, 401)
                ELSE IF target.id = 0 THEN Respond(r, 404)
                ELSE IF followsSelf(target, u) THEN Respond([r EXCEPT !.uid = target.id], 403)
                ELSE [r EXCEPT !.pc = "findFirst", !.uid = target.id])
    /\ UNCHANGED <<accountVars, completed, nextId, blogs, follows, notifications>>
    /\ UNCHANGED contentVars

\* db.follow.findFirst({ where: { userId: user.id, followerId: req.user.id } })
followUser_findFirst(s) ==
    /\ At(s, "followUser", "findFirst")
    /\ LET r == reqs[s]
           f == findFollow(r.uid, r.user)
       IN  reqs' = Step(s,
             IF f.id # 0 THEN Respond([r EXCEPT !.edge = f], 400)
             ELSE [r EXCEPT !.pc = "create"])
    /\ UNCHANGED <<accountVars, completed, nextId, blogs, follows, notifications>>
    /\ UNCHANGED contentVars

\* db.follow.create({ data: { userId: user.id, followerId: req.user.id } })
followUser_create(s) ==
    /\ At(s, "followUser", "create")
    /\ LET r == reqs[s]
           f == [id |-> nextId, userId |-> r.uid, followerId |-> r.user]
       IN  IF edgeTaken(r.uid, r.user)
              \/ findUserById(r.uid).id = 0 \/ findUserById(r.user).id = 0
           THEN \* unique constraint or foreign key violation: caught, 500
                /\ reqs' = Step(s, Respond(r, 500))
                /\ UNCHANGED <<follows, nextId>>
           ELSE /\ follows' = follows \cup {f}
                /\ nextId' = nextId + 1
                /\ reqs' = Step(s, Respond([r EXCEPT !.edge = f], 200))
    /\ UNCHANGED <<accountVars, completed, blogs, notifications>>
    /\ UNCHANGED contentVars

----------------------------------------------------------------------------
(* unFollowUser: DELETE /api/follow/:username *)

\* protect, db.user.findUnique({ username })
unFollowUser(s) ==
    /\ Free(s)
    /\ \E cred \in FollowerCreds, name \in NameInputs :
          LET u == protect(cred)
              r == [Receive("unFollowUser") EXCEPT !.cred = cred, !.user = u.id,
                      !.name = name]
              target == findUserByUsername(name)
          IN  reqs' = Step(s,
                IF u.id = 0 THEN Respond(r, 401)
                ELSE IF target.id = 0 THEN Respond(r, 404)
                ELSE [r EXCEPT !.pc = "findFirst", !.uid = target.id])
    /\ UNCHANGED <<accountVars, completed, nextId, blogs, follows, notifications>>
    /\ UNCHANGED contentVars

\* db.follow.findFirst({ where: { userId: user.id, followerId: req.user.id } })
unFollowUser_findFirst(s) ==
    /\ At(s, "unFollowUser", "findFirst")
    /\ LET r == reqs[s]
           f == findFollow(r.uid, r.user)
       IN  reqs' = Step(s,
             IF f.id = 0 THEN Respond(r, 400)
             ELSE [r EXCEPT !.pc = "delete", !.edge = f])
    /\ UNCHANGED <<accountVars, completed, nextId, blogs, follows, notifications>>
    /\ UNCHANGED contentVars

\* db.follow.delete({ where: { id: isUserFollowing.id } })
unFollowUser_delete(s) ==
    /\ At(s, "unFollowUser", "delete")
    /\ LET r == reqs[s] IN
       IF r.edge \in follows
       THEN /\ follows' = follows \ {r.edge}
            /\ reqs' = Step(s, Respond(r, 200))
       ELSE \* record to delete does not exist: caught, 500
            /\ reqs' = Step(s, Respond(r, 500))
            /\ UNCHANGED follows
    /\ UNCHANGED <<accountVars, completed, nextId, blogs, notifications>>
    /\ UNCHANGED contentVars

----------------------------------------------------------------------------
(* markNotificationsAsSeen: PATCH /api/notification *)

\* An update without the where clause
seenByAll(userId) == {[n EXCEPT !.seen = TRUE] : n \in notifications}

\* db.notification.updateMany({ where: { userId }, data: { seen: true } })
seenBy(userId) ==
    {IF n.userId = userId THEN [n EXCEPT !.seen = TRUE] ELSE n : n \in notifications}

\* protect, then the updateMany
markNotificationsAsSeen(s) ==
    /\ Free(s)
    /\ \E cred \in FollowerCreds :
          LET u == protect(cred)
              r == [Receive("markNotificationsAsSeen") EXCEPT !.cred = cred,
                      !.user = u.id]
          IN  IF u.id = 0
              THEN reqs' = Step(s, Respond(r, 401)) /\ UNCHANGED notifications
              ELSE /\ notifications' = seenBy(u.id)
                   /\ reqs' = Step(s, Respond(r, 200))
    /\ UNCHANGED <<accountVars, completed, nextId, blogs, follows>>
    /\ UNCHANGED contentVars

----------------------------------------------------------------------------
(* createComment: POST /api/blog/:id/comment *)

\* req.body.content of createComment and editComment
CommentInputs == {"", "nice", "good"}

\* req.params.id of editComment and deleteComment: the id of a comment, or of none
CommentIdInputs == {0} \cup {c.id : c \in comments}

\* db.comment.findUnique({ where: { id: commentId } })
findComment(id) ==
    IF \E c \in comments : c.id = id
    THEN CHOOSE c \in comments : c.id = id
    ELSE NoComment

\* db.blog.findUnique({ where: { blogId, draft: false } })
findPublished(blogId) ==
    LET b == findBlogByBlogId(blogId) IN IF b.draft THEN NoBlog ELSE b

\* protect, the lookup of the published blog, the content check
createComment(s) ==
    /\ Free(s)
    /\ \E cred \in FollowerCreds, blogId \in BlogIdInputs, content \in CommentInputs :
          LET u == protect(cred)
              r == [Receive("createComment") EXCEPT !.cred = cred, !.user = u.id,
                      !.blogId = blogId, !.content = content]
              b == findPublished(blogId)
          IN  reqs' = Step(s,
                IF u.id = 0 THEN Respond(r, 401)
                ELSE IF b.id = 0 THEN Respond(r, 404)
                ELSE IF content = "" THEN Respond([r EXCEPT !.blog = b], 400)
                ELSE [r EXCEPT !.pc = "create", !.blog = b])
    /\ UNCHANGED <<accountVars, completed, nextId, blogs, follows, notifications>>
    /\ UNCHANGED contentVars

\* db.comment.create({ data: { content, blogId: blog.id, authorId: req.user.id } })
createComment_create(s) ==
    /\ At(s, "createComment", "create")
    /\ LET r == reqs[s]
           c == [id |-> nextId, content |-> r.content, blogId |-> r.blog.id,
                 authorId |-> r.user]
       IN  IF findBlogById(c.blogId).id = 0 \/ findUserById(c.authorId).id = 0
           THEN \* foreign key violation: caught, 500
                /\ reqs' = Step(s, Respond(r, 500))
                /\ UNCHANGED <<comments, nextId>>
           ELSE /\ comments' = comments \cup {c}
                /\ nextId' = nextId + 1
                /\ reqs' = Step(s, Respond([r EXCEPT !.comment = c], 201))
    /\ UNCHANGED <<accountVars, completed, blogs, follows, notifications>>
    /\ UNCHANGED <<categories, categoryOnBlogs, lists, searches>>

----------------------------------------------------------------------------
(* editComment: PUT /api/blog/comment/:id *)

\* A check that lets every requester edit
editableByAll(comment, requester) == FALSE

\* comment.authorId != req.user.id
notCommentAuthor(comment, requester) == comment.authorId # requester

\* protect, the lookup of the comment, the author check, the content check
editComment(s) ==
    /\ Free(s)
    /\ \E cred \in FollowerCreds, id \in CommentIdInputs, content \in CommentInputs :
          LET u == protect(cred)
              r == [Receive("editComment") EXCEPT !.cred = cred, !.user = u.id,
                      !.id = id, !.content = content]
              c == findComment(id)
          IN  reqs' = Step(s,
                IF u.id = 0 THEN Respond(r, 401)
                ELSE IF c.id = 0 THEN Respond(r, 404)
                ELSE IF notCommentAuthor(c, u.id) THEN Respond([r EXCEPT !.comment = c], 403)
                ELSE IF content = "" THEN Respond([r EXCEPT !.comment = c], 400)
                ELSE [r EXCEPT !.pc = "update", !.comment = c])
    /\ UNCHANGED <<accountVars, completed, nextId, blogs, follows, notifications>>
    /\ UNCHANGED contentVars

\* db.comment.update({ where: { id: commentId }, data: { content } })
editComment_update(s) ==
    /\ At(s, "editComment", "update")
    /\ LET r == reqs[s]
           c == findComment(r.id)
       IN  IF c.id = 0
           THEN \* record to update not found: caught, 500
                /\ reqs' = Step(s, Respond(r, 500))
                /\ UNCHANGED comments
           ELSE /\ comments' = (comments \ {c}) \cup {[c EXCEPT !.content = r.content]}
                /\ reqs' = Step(s, Respond(r, 200))
    /\ UNCHANGED <<accountVars, completed, nextId, blogs, follows, notifications>>
    /\ UNCHANGED <<categories, categoryOnBlogs, lists, searches>>

----------------------------------------------------------------------------
(* deleteComment: DELETE /api/blog/comment/:id *)

\* req.user.id != comment.authorId && req.user.id != blog?.authorId
neitherAuthor(comment, blog, requester) ==
    requester # comment.authorId /\ (blog.id = 0 \/ requester # blog.authorId)

\* protect, the lookup of the comment
deleteComment(s) ==
    /\ Free(s)
    /\ \E cred \in FollowerCreds, id \in CommentIdInputs :
          LET u == protect(cred)
              r == [Receive("deleteComment") EXCEPT !.cred = cred, !.user = u.id,
                      !.id = id]
              c == findComment(id)
          IN  reqs' = Step(s,
                IF u.id = 0 THEN Respond(r, 401)
                ELSE IF c.id = 0 THEN Respond(r, 404)
                ELSE [r EXCEPT !.pc = "findUnique", !.comment = c])
    /\ UNCHANGED <<accountVars, completed, nextId, blogs, follows, notifications>>
    /\ UNCHANGED contentVars

\* db.blog.findUnique({ where: { id: comment.blogId } }), the check of the two authors
deleteComment_findUnique(s) ==
    /\ At(s, "deleteComment", "findUnique")
    /\ LET r == reqs[s]
           b == findBlogById(r.comment.blogId)
       IN  reqs' = Step(s,
             IF neitherAuthor(r.comment, b, r.user) THEN Respond([r EXCEPT !.blog = b], 403)
             ELSE [r EXCEPT !.pc = "delete", !.blog = b])
    /\ UNCHANGED <<accountVars, completed, nextId, blogs, follows, notifications>>
    /\ UNCHANGED contentVars

\* db.comment.delete({ where: { id: commentId } })
deleteComment_delete(s) ==
    /\ At(s, "deleteComment", "delete")
    /\ LET r == reqs[s]
           c == findComment(r.id)
       IN  IF c.id = 0
           THEN \* record to delete does not exist: caught, 500
                /\ reqs' = Step(s, Respond(r, 500))
                /\ UNCHANGED comments
           ELSE /\ comments' = comments \ {c}
                /\ reqs' = Step(s, Respond(r, 200))
    /\ UNCHANGED <<accountVars, completed, nextId, blogs, follows, notifications>>
    /\ UNCHANGED <<categories, categoryOnBlogs, lists, searches>>

----------------------------------------------------------------------------
(* addBlog: POST /api/list/blog/:id *)

\* protect, db.blog.findUnique({ where: { blogId } })
addBlog(s) ==
    /\ Free(s)
    /\ \E cred \in EditorCreds, blogId \in BlogIdInputs :
          LET u == protect(cred)
              r == [Receive("addBlog") EXCEPT !.cred = cred, !.user = u.id,
                      !.blogId = blogId]
              b == findBlogByBlogId(blogId)
          IN  reqs' = Step(s,
                IF u.id = 0 THEN Respond(r, 401)
                ELSE IF b.id = 0 THEN Respond(r, 404)
                ELSE [r EXCEPT !.pc = "findFirst", !.blog = b])
    /\ UNCHANGED <<accountVars, completed, nextId, blogs, follows, notifications>>
    /\ UNCHANGED contentVars

\* db.list.findFirst({ where: { blogId: blog.id, userId: req.user.id } })
addBlog_findFirst(s) ==
    /\ At(s, "addBlog", "findFirst")
    /\ LET r == reqs[s] IN
       reqs' = Step(s,
         IF \E x \in lists : x.blogId = r.blog.id /\ x.userId = r.user
         THEN Respond(r, 400)
         ELSE [r EXCEPT !.pc = "create"])
    /\ UNCHANGED <<accountVars, completed, nextId, blogs, follows, notifications>>
    /\ UNCHANGED contentVars

\* db.list.create({ data: { blogId: blog.id, userId: req.user.id } });
\* @@unique([userId, blogId])
addBlog_create(s) ==
    /\ At(s, "addBlog", "create")
    /\ LET r == reqs[s] IN
       IF \/ findBlogById(r.blog.id).id = 0 \/ findUserById(r.user).id = 0
          \/ \E x \in lists : x.blogId = r.blog.id /\ x.userId = r.user
       THEN \* foreign key or unique constraint violation: caught, 500
            /\ reqs' = Step(s, Respond(r, 500))
            /\ UNCHANGED <<lists, nextId>>
       ELSE /\ lists' = lists \cup {[id |-> nextId, userId |-> r.user, blogId |-> r.blog.id]}
            /\ nextId' = nextId + 1
            /\ reqs' = Step(s, Respond(r, 200))
    /\ UNCHANGED <<accountVars, completed, blogs, follows, notifications>>
    /\ UNCHANGED <<categories, categoryOnBlogs, comments, searches>>

----------------------------------------------------------------------------
(* The read operations: what a response shows of the blogs *)

\* req.params.category
CategoryNameInputs == {"tech", "misc"}

\* The Authorization headers getBlog is sent: the route is public
OptionalCreds == {NoCred, forged(1)} \cup EditorCreds

\* getBlog: GET /api/blog/:id. jwt.verify and db.user.findUnique when a token
\* is sent (user is { id: 0 } otherwise), db.blog.findUnique({ blogId }), the
\* draft check; the lookup of the follow edge only sets a flag of the response.
getBlog(s) ==
    /\ Free(s)
    /\ \E cred \in OptionalCreds, blogId \in BlogIdInputs :
          LET u == IF cred = NoCred THEN NoUser ELSE findUserById(cred.id)
              r == [Receive("getBlog") EXCEPT !.cred = cred, !.user = u.id,
                      !.blogId = blogId]
              b == findBlogByBlogId(blogId)
          IN  reqs' = Step(s,
                IF cred # NoCred /\ ~jwtVerify(cred) THEN Respond(r, 401)
                ELSE IF cred # NoCred /\ u.id = 0 THEN Respond(r, 500)
                ELSE IF b.id = 0 THEN Respond(r, 404)
                ELSE IF b.draft /\ b.authorId # u.id THEN Respond(r, 404)
                ELSE [Respond(r, 200) EXCEPT !.shown = {b}])
    /\ UNCHANGED <<accountVars, completed, nextId, blogs, follows, notifications>>
    /\ UNCHANGED contentVars

\* getBlogs: GET /api/blog. protect, db.blog.findMany({ where: { draft: false } })
getBlogs(s) ==
    /\ Free(s)
    /\ \E cred \in EditorCreds :
          LET u == protect(cred)
              r == [Receive("getBlogs") EXCEPT !.cred = cred, !.user = u.id]
          IN  reqs' = Step(s,
                IF u.id = 0 THEN Respond(r, 401)
                ELSE [Respond(r, 200) EXCEPT !.shown = {b \in blogs : ~b.draft}])
    /\ UNCHANGED <<accountVars, completed, nextId, blogs, follows, notifications>>
    /\ UNCHANGED contentVars

\* getCategoryBlogs: GET /api/blog/category/:category. protect,
\* db.category.findUnique({ name }),
\* db.blog.findMany({ where: { categories: { some: { categoryId: category.id } } } })
getCategoryBlogs(s) ==
    /\ Free(s)
    /\ \E cred \in EditorCreds, name \in CategoryNameInputs :
          LET u == protect(cred)
              r == [Receive("getCategoryBlogs") EXCEPT !.cred = cred, !.user = u.id,
                      !.name = name]
              c == findCategory(name)
          IN  reqs' = Step(s,
                IF u.id = 0 THEN Respond(r, 401)
                ELSE IF c.id = 0 THEN Respond(r, 200)
                ELSE [Respond(r, 200) EXCEPT
                        !.category = c.id,
                        !.shown = {b \in blogs : \E x \in categoryOnBlogs :
                                      x.blogId = b.id /\ x.categoryId = c.id}])
    /\ UNCHANGED <<accountVars, completed, nextId, blogs, follows, notifications>>
    /\ UNCHANGED contentVars

\* getSavedBlogs: GET /api/list. protect,
\* db.list.findMany({ where: { userId: req.user.id }, select: { blog } })
getSavedBlogs(s) ==
    /\ Free(s)
    /\ \E cred \in EditorCreds :
          LET u == protect(cred)
              r == [Receive("getSavedBlogs") EXCEPT !.cred = cred, !.user = u.id]
          IN  reqs' = Step(s,
                IF u.id = 0 THEN Respond(r, 401)
                ELSE [Respond(r, 200) EXCEPT
                        !.shown = {b \in blogs : \E x \in lists :
                                      x.userId = u.id /\ x.blogId = b.id}])
    /\ UNCHANGED <<accountVars, completed, nextId, blogs, follows, notifications>>
    /\ UNCHANGED contentVars

\* getProfile: GET /api/user/:username. protect, db.user.findUnique({ username }),
\* db.blog.findMany({ where: { authorId: user.id, draft: false } }); the lookup
\* of the follow edge only sets a flag of the response.
getProfile(s) ==
    /\ Free(s)
    /\ \E cred \in EditorCreds, name \in NameInputs :
          LET u == protect(cred)
              r == [Receive("getProfile") EXCEPT !.cred = cred, !.user = u.id,
                      !.name = name]
              target == findUserByUsername(name)
          IN  reqs' = Step(s,
                IF u.id = 0 THEN Respond(r, 401)
                ELSE IF target.id = 0 THEN Respond(r, 404)
                ELSE [Respond(r, 200) EXCEPT
                        !.uid = target.id,
                        !.shown = {b \in blogs : b.authorId = target.id /\ ~b.draft}])
    /\ UNCHANGED <<accountVars, completed, nextId, blogs, follows, notifications>>
    /\ UNCHANGED contentVars

----------------------------------------------------------------------------
(* searchBlogs: GET /api/search?query= *)

\* if (recentSearches.length >= 5)
TrimAt == 5

\* for (let i = 4; i < recentSearches.length; i++)
TrimFrom == 4

\* req.query.query: titles and queries have at most one character
Queries == {"t", "u", "v", "w", "x", "y"}
QueryInputs == Queries \cup {""}

\* String.prototype.toLowerCase, on the titles and queries of the model
lowerCase(str) == IF str = "T" THEN "t" ELSE str

\* title: { contains: query, mode: "insensitive" }
contains(title, query) == query = "" \/ lowerCase(title) = lowerCase(query)

\* The rows of a set, the row created last first
RECURSIVE newestFirst(_)
newestFirst(rows) ==
    IF rows = {} THEN <<>>
    ELSE LET first == CHOOSE x \in rows : \A y \in rows : x.id >= y.id
         IN  <<first>> \o newestFirst(rows \ {first})

\* db.searches.findMany({ where: { userId }, orderBy: { createdAt: "desc" } })
findRecentSearches(userId) == newestFirst({x \in searches : x.userId = userId})

\* protect, the query check,
\* db.blog.findMany({ where: { title: { contains: query }, draft: false } })
searchBlogs(s) ==
    /\ Free(s)
    /\ \E cred \in EditorCreds, query \in QueryInputs :
          LET u == protect(cred)
              r == [Receive("searchBlogs") EXCEPT !.cred = cred, !.user = u.id,
                      !.query = query]
          IN  reqs' = Step(s,
                IF u.id = 0 THEN Respond(r, 401)
                ELSE IF query = "" THEN Respond(r, 400)
                ELSE [r EXCEPT !.pc = "findMany",
                               !.shown = {b \in blogs : contains(b.title, query) /\ ~b.draft}])
    /\ UNCHANGED <<accountVars, completed, nextId, blogs, follows, notifications>>
    /\ UNCHANGED contentVars

\* db.searches.findMany({ where: { userId: req.user.id }, orderBy: createdAt desc });
\* recent is recentSearches and i the loop's index (recentSearches[i] is recent[i + 1])
searchBlogs_findMany(s) ==
    /\ At(s, "searchBlogs", "findMany")
    /\ LET r      == reqs[s]
           recent == findRecentSearches(r.user)
       IN  reqs' = Step(s,
             IF Len(recent) >= TrimAt
             THEN [r EXCEPT !.pc = "delete", !.recent = recent, !.i = TrimFrom]
             ELSE [r EXCEPT !.pc = "findFirst", !.recent = recent])
    /\ UNCHANGED <<accountVars, completed, nextId, blogs, follows, notifications>>
    /\ UNCHANGED contentVars

\* One turn of the loop: db.searches.delete({ where: { id: recentSearches[i].id } })
searchBlogs_delete(s) ==
    /\ At(s, "searchBlogs", "delete")
    /\ LET r    == reqs[s]
           row  == r.recent[r.i + 1]
           more == r.i + 1 < Len(r.recent)
       IN  IF row \notin searches
           THEN \* record to delete does not exist: caught, 500
                /\ reqs' = Step(s, Respond(r, 500))
                /\ UNCHANGED searches
           ELSE /\ searches' = searches \ {row}
                /\ reqs' = Step(s, [r EXCEPT !.i = @ + 1,
                                             !.pc = IF more THEN "delete" ELSE "findFirst"])
    /\ UNCHANGED <<accountVars, completed, nextId, blogs, follows, notifications>>
    /\ UNCHANGED <<categories, categoryOnBlogs, lists, comments>>

\* db.searches.findFirst({ where: { content: query, userId: req.user.id } }):
\* any one of the rows that match
searchBlogs_findFirst(s) ==
    /\ At(s, "searchBlogs", "findFirst")
    /\ LET r       == reqs[s]
           matches == {x \in searches : x.content = r.query /\ x.userId = r.user}
       IN  IF matches = {}
           THEN reqs' = Step(s, [r EXCEPT !.pc = "create", !.search = NoSearch])
           ELSE \E x \in matches : reqs' = Step(s, [r EXCEPT !.pc = "create", !.search = x])
    /\ UNCHANGED <<accountVars, completed, nextId, blogs, follows, notifications>>
    /\ UNCHANGED contentVars

\* A handler that stores the query only when it found no row with it
storedUnlessFound(r) ==
    IF r.search.id # 0 THEN {} ELSE {[id |-> nextId, userId |-> r.user, content |-> r.query]}

\* db.searches.create({ data: { content: query, userId: req.user.id } })
storedSearch(r) == {[id |-> nextId, userId |-> r.user, content |-> r.query]}

\* the create, then if (isSearchDuplicated) the delete is next, else 200
searchBlogs_create(s) ==
    /\ At(s, "searchBlogs", "create")
    /\ LET r == reqs[s] IN
       IF findUserById(r.user).id = 0
       THEN \* foreign key violation: caught, 500
            /\ reqs' = Step(s, Respond(r, 500))
            /\ UNCHANGED <<searches, nextId>>
       ELSE /\ searches' = searches \cup storedSearch(r)
            /\ nextId' = nextId + 1
            /\ reqs' = Step(s, IF r.search.id # 0
                               THEN [r EXCEPT !.pc = "deleteDuplicate"]
                               ELSE Respond(r, 200))
    /\ UNCHANGED <<accountVars, completed, blogs, follows, notifications>>
    /\ UNCHANGED <<categories, categoryOnBlogs, lists, comments>>

\* db.searches.delete({ where: { id: isSearchDuplicated.id } })
searchBlogs_deleteDuplicate(s) ==
    /\ At(s, "searchBlogs", "deleteDuplicate")
    /\ LET r == reqs[s] IN
       IF r.search \notin searches
       THEN \* record to delete does not exist: caught, 500
            /\ reqs' = Step(s, Respond(r, 500))
            /\ UNCHANGED searches
       ELSE /\ searches' = searches \ {r.search}
            /\ reqs' = Step(s, Respond(r, 200))
    /\ UNCHANGED <<accountVars, completed, nextId, blogs, follows, notifications>>
    /\ UNCHANGED <<categories, categoryOnBlogs, lists, comments>>

----------------------------------------------------------------------------
(* deleteSearch: DELETE /api/search/:id *)

\* req.params.id: the id of a stored search, or of none
SearchIdInputs == {0} \cup {x.id : x \in searches}

\* db.searches.findUnique({ where: { id } })
findSearch(id) ==
    IF \E x \in searches : x.id = id
    THEN CHOOSE x \in searches : x.id = id
    ELSE NoSearch

\* protect, the lookup, the owner check
deleteSearch(s) ==
    /\ Free(s)
    /\ \E cred \in EditorCreds, id \in SearchIdInputs :
          LET u == protect(cred)
              r == [Receive("deleteSearch") EXCEPT !.cred = cred, !.user = u.id,
                      !.id = id]
              x == findSearch(id)
          IN  reqs' = Step(s,
                IF u.id = 0 THEN Respond(r, 401)
                ELSE IF x.id = 0 THEN Respond(r, 404)
                ELSE IF x.userId # u.id THEN Respond([r EXCEPT !.search = x], 403)
                ELSE [r EXCEPT !.pc = "delete", !.search = x])
    /\ UNCHANGED <<accountVars, completed, nextId, blogs, follows, notifications>>
    /\ UNCHANGED contentVars

\* db.searches.delete({ where: { id: search.id } })
deleteSearch_delete(s) ==
    /\ At(s, "deleteSearch", "delete")
    /\ LET r == reqs[s] IN
       IF r.search \notin searches
       THEN \* record to delete does not exist: caught, 500
            /\ reqs' = Step(s, Respond(r, 500))
            /\ UNCHANGED searches
       ELSE /\ searches' = searches \ {r.search}
            /\ reqs' = Step(s, Respond(r, 200))
    /\ UNCHANGED <<accountVars, completed, nextId, blogs, follows, notifications>>
    /\ UNCHANGED <<categories, categoryOnBlogs, lists, comments>>

----------------------------------------------------------------------------
\* One step of a request about blogs, follows or notifications in slot s
Social(s) ==
    \/ SocialRoom(MaxSocialRows) /\ BlogRoom /\ createBlog(s)
    \/ editBlog(s) /\ reqs'[s].categories = NoNames
    \/ editBlog_update(s)
    \/ editBlog_deleteMany(s)
    \/ deleteBlog(s)
    \/ deleteBlog_delete(s)
    \/ publishBlog(s)
    \/ publishBlog_update(s)
    \/ publishBlog_findMany(s)
    \/ publishBlog_create(s)
    \/ SocialRoom(MaxSocialRows) /\ followUser(s)
    \/ followUser_findFirst(s)
    \/ followUser_create(s)
    \/ unFollowUser(s)
    \/ unFollowUser_findFirst(s)
    \/ unFollowUser_delete(s)
    \/ markNotificationsAsSeen(s)
    \/ Deliver(s)

\* The members' requests handled one at a time
NextSocial == Social(1)

SpecSocial == InitSocial /\ [][NextSocial]_vars

\* The requests that publish and follow, handled concurrently with their
\* steps interleaved
Contend(s) ==
    \/ SocialRoom(MaxRaceRows) /\ BlogRoom /\ createBlog(s)
    \/ publishBlog(s)
    \/ publishBlog_update(s)
    \/ publishBlog_findMany(s)
    \/ publishBlog_create(s)
    \/ SocialRoom(MaxRaceRows) /\ followUser(s)
    \/ followUser_findFirst(s)
    \/ followUser_create(s)
    \/ Deliver(s)

NextSocialRace == \E s \in Slots : Contend(s)

SpecSocialRace == InitSocial /\ [][NextSocialRace]_vars

\* The members' requests handled one at a time by a store that may fail a
\* write of publishBlog's loop
Fanout(s) ==
    \/ SocialRoom(MaxFanoutRows) /\ BlogRoom /\ createBlog(s)
    \/ editBlog(s) /\ reqs'[s].categories = NoNames
    \/ editBlog_update(s)
    \/ editBlog_deleteMany(s)
    \/ publishBlog(s)
    \/ publishBlog_update(s)
    \/ publishBlog_findMany(s)
    \/ publishBlog_create(s)
    \/ publishBlog_createFails(s)
    \/ SocialRoom(MaxFanoutRows) /\ followUser(s)
    \/ followUser_findFirst(s)
    \/ followUser_create(s)
    \/ unFollowUser(s)
    \/ unFollowUser_findFirst(s)
    \/ unFollowUser_delete(s)
    \/ markNotificationsAsSeen(s)
    \/ Deliver(s)

NextFanout == Fanout(1)

SpecFanout == InitSocial /\ [][NextFanout]_vars

----------------------------------------------------------------------------
(* Reading blogs *)

MaxReadRows == 4          \* rows created while blogs are read

\* A request that may create n rows is received only while the store has room.
ReadRoom(n) == nextId + n <= Len(MemberNames) + MaxReadRows + 1

\* One step of a request that writes, tags, saves or reads a blog
Read(s) ==
    \/ ReadRoom(1) /\ BlogRoom /\ createBlog(s)
    \/ ReadRoom(2) /\ editBlog(s)
    \/ editBlog_update(s)
    \/ editBlog_deleteMany(s)
    \/ editBlog_findUnique(s)
    \/ editBlog_createCategory(s)
    \/ editBlog_createOnBlogs(s)
    \/ publishBlog(s)
    \/ publishBlog_update(s)
    \/ publishBlog_findMany(s)
    \/ ReadRoom(1) /\ addBlog(s)
    \/ addBlog_findFirst(s)
    \/ addBlog_create(s)
    \/ getBlog(s)
    \/ getBlogs(s)
    \/ getCategoryBlogs(s)
    \/ getSavedBlogs(s)
    \/ getProfile(s)
    \/ ReadRoom(1) /\ searches = {} /\ searchBlogs(s)
    \/ searchBlogs_findMany(s)
    \/ searchBlogs_findFirst(s)
    \/ searchBlogs_create(s)
    \/ Deliver(s)

\* The members' requests handled one at a time
NextRead == Read(1)

SpecRead == InitSocial /\ [][NextRead]_vars

----------------------------------------------------------------------------
(* Recent searches *)

MaxSearches == 7          \* searches stored in one behaviour

\* A search is received only while fewer than MaxSearches rows were created.
SearchRoom == nextId + 1 <= Len(MemberNames) + MaxSearches + 1

\* One step of a request that searches or removes a recent search
\* The queries in the order in which a behaviour first uses them
QueryOrder == <<"t", "u", "v", "w", "x", "y">>

\* Queries differ only by name, and so do the members: the i-th search stored
\* has one of the first i queries, and bob searches only before ann has.
InOrder(q) ==
    /\ usernames[q.user] = "bob" => searches = {}
    /\ q.query # "" =>
          \E i \in 1..Len(QueryOrder) :
             QueryOrder[i] = q.query /\ i <= nextId - Len(MemberNames)

Search(s) ==
    \/ SearchRoom /\ searchBlogs(s) /\ InOrder(reqs'[s])
    \/ searchBlogs_findMany(s)
    \/ searchBlogs_delete(s)
    \/ searchBlogs_findFirst(s)
    \/ searchBlogs_create(s)
    \/ searchBlogs_deleteDuplicate(s)
    \/ deleteSearch(s)
    \/ deleteSearch_delete(s)
    \/ Deliver(s)

NextSearch == Search(1)

SpecSearch == InitSocial /\ [][NextSearch]_vars

----------------------------------------------------------------------------
(* Blogs and their comments *)

MaxCommentRows == 3       \* blogs and comments created in one behaviour

CommentRoom == nextId + 1 <= Len(MemberNames) + MaxCommentRows + 1

\* The requests that write blogs and comments, handled one at a time; no
\* member follows another, so publishBlog's loop has nobody to notify.
Comment(s) ==
    \/ CommentRoom /\ BlogRoom /\ createBlog(s)
    \/ editBlog(s) /\ reqs'[s].categories = NoNames
    \/ editBlog_update(s)
    \/ editBlog_deleteMany(s)
    \/ deleteBlog(s)
    \/ deleteBlog_delete(s)
    \/ publishBlog(s)
    \/ publishBlog_update(s)
    \/ publishBlog_findMany(s)
    \/ CommentRoom /\ createComment(s)
    \/ createComment_create(s)
    \/ editComment(s)
    \/ editComment_update(s)
    \/ deleteComment(s)
    \/ deleteComment_findUnique(s)
    \/ deleteComment_delete(s)
    \/ Deliver(s)

NextComment == Comment(1)

SpecComment == InitSocial /\ [][NextComment]_vars

----------------------------------------------------------------------------
(* The protected routes after an account was deleted *)

MaxOrphanRows == 2        \* rows created by entry requests after the deletion

\* The store after the account of one member was deleted: the row of the
\* member is gone, and the credential signed for the member is still held.
InitOrphan ==
    /\ users \in {Members \ {u} : u \in Members}
    /\ usernames = MemberNames
    /\ activateTokens = {}
    /\ passwordResetTokens = {}
    /\ deleteTokens = {}
    /\ nextId = Len(MemberNames) + 1
    /\ now = 0
    /\ mails = {}
    /\ sessions = {generateToken(i) : i \in MemberIds}
    /\ reqs = [s \in Slots |-> NoReq]
    /\ blogs = {}
    /\ follows = {}
    /\ notifications = {}
    /\ completed = {}
    /\ categories = {}
    /\ categoryOnBlogs = {}
    /\ lists = {}
    /\ comments = {}
    /\ searches = {}

OrphanRoom == nextId + 1 <= Len(MemberNames) + MaxOrphanRows + 1

\* The requests to the protected routes, handled one at a time
Orphan(s) ==
    \/ getUser(s)
    \/ OrphanRoom /\ sendAccountDeleteEmail(s)
    \/ sendAccountDeleteEmail_create(s)
    \/ sendAccountDeleteEmail_sendMail(s)
    \/ deleteUser(s)
    \/ deleteUser_findUnique(s)
    \/ deleteUser_delete(s)
    \/ OrphanRoom /\ BlogRoom /\ createBlog(s)
    \/ editBlog(s) /\ reqs'[s].categories = NoNames
    \/ editBlog_update(s)
    \/ editBlog_deleteMany(s)
    \/ deleteBlog(s)
    \/ deleteBlog_delete(s)
    \/ publishBlog(s)
    \/ publishBlog_update(s)
    \/ publishBlog_findMany(s)
    \/ publishBlog_create(s)
    \/ OrphanRoom /\ followUser(s)
    \/ followUser_findFirst(s)
    \/ followUser_create(s)
    \/ unFollowUser(s)
    \/ unFollowUser_findFirst(s)
    \/ unFollowUser_delete(s)
    \/ markNotificationsAsSeen(s)
    \/ OrphanRoom /\ addBlog(s)
    \/ addBlog_findFirst(s)
    \/ addBlog_create(s)
    \/ getBlogs(s)
    \/ getCategoryBlogs(s)
    \/ getSavedBlogs(s)
    \/ getProfile(s)
    \/ OrphanRoom /\ searchBlogs(s)
    \/ searchBlogs_findMany(s)
    \/ searchBlogs_findFirst(s)
    \/ searchBlogs_create(s)
    \/ searchBlogs_deleteDuplicate(s)
    \/ deleteSearch(s)
    \/ deleteSearch_delete(s)
    \/ OrphanRoom /\ createComment(s)
    \/ createComment_create(s)
    \/ editComment(s)
    \/ editComment_update(s)
    \/ deleteComment(s)
    \/ deleteComment_findUnique(s)
    \/ deleteComment_delete(s)
    \/ Deliver(s)

NextOrphan == Orphan(1)

SpecOrphan == InitOrphan /\ [][NextOrphan]_vars

----------------------------------------------------------------------------
(* The claims *)

Answered(s) == reqs[s].pc = "done"

\* The token strings issued in a set of token rows
issued(table) == {row.token : row \in table}

\* How old the token a request presented was when the handler looked it up
age(r) == r.at - r.row.createdAt

(* C1: every operation that uses a single-use token (activateAccount,       *)
(* resetAccountPassword, deleteUser) rejects a token more than 24 hours old, *)
(* and at 23h59m accepts it, acting on the user the token is bound to.      *)
C1_TokenWindow ==
    \A s \in Slots :
       LET r == reqs[s] IN
       (/\ Answered(s)
        /\ r.op \in {"activateAccount", "resetAccountPassword", "deleteUser"}
        /\ r.row.id # 0)
       => /\ age(r) > TokenTtl => r.status = 400
          /\ (age(r) = TokenTtl - 1 /\ r.op = "resetAccountPassword"
                /\ r.password = "N3wpass!!") => r.status = 200
          /\ (age(r) = TokenTtl - 1 /\ r.op = "deleteUser" /\ r.row.userId = r.user)
                => r.status \notin {400, 403, 404}
          /\ r.status = 200 => r.uid = r.row.userId

(* C2: a password-reset token that has been consumed (resetAt set) never    *)
(* validates again: a later resetAccountPassword presenting it fails and    *)
(* does not overwrite the password hash.                                    *)
C2_ConsumedTokenRejected ==
    \A s \in Slots :
       LET r == reqs[s] IN
       (r.op = "resetAccountPassword" /\ r.row.id # 0 /\ r.row.usedAt # -1)
       => /\ r.pc # "updateToken"
          /\ r.status # 200

(* C3: of the requests racing with one valid token (resetAccountPassword,   *)
(* activateAccount) at most one succeeds: no request that read the token    *)
(* unconsumed succeeds after another request has already used it.           *)
C3_AtMostOneSucceeds ==
    \A s \in Slots :
       LET r == reqs[s] IN
       (/\ Answered(s) /\ r.status = 200
        /\ r.op \in {"resetAccountPassword", "activateAccount"}
        /\ r.row.usedAt = -1)
       => ~r.prior

(* C4: token purposes are separate namespaces: a token string issued for    *)
(* one purpose is never accepted by the operation of another purpose; the   *)
(* request is answered with a failure by its first step, before any write.  *)
C4_PurposesSeparate ==
    \A s \in Slots :
       LET r == reqs[s] IN
       /\ (r.op = "resetAccountPassword"
             /\ r.token \in issued(activateTokens \cup deleteTokens))
          => (Answered(s) /\ r.status = 400 /\ r.row.id = 0)
       /\ (r.op = "activateAccount"
             /\ r.token \in issued(passwordResetTokens \cup deleteTokens))
          => (Answered(s) /\ r.status = 400 /\ r.row.id = 0)
       /\ (r.op = "deleteUser"
             /\ r.token \in issued(activateTokens \cup passwordResetTokens))
          => (r.row.id = 0 /\ r.pc # "delete"
              /\ (Answered(s) => r.status \in {401, 404}))

C4_Witness ==
    \E s \in Slots :
       /\ Answered(s) /\ reqs[s].op = "resetAccountPassword"
       /\ reqs[s].password = "N3wpass!!"
       /\ reqs[s].token \in issued(activateTokens)
       /\ reqs[s].status = 400

\* What the store holds when registerUser answers 201
Registered(s) ==
    LET r == reqs[s] IN
    /\ {u \in users : u.id = r.uid \/ u.email = r.email}
         = {[id |-> r.uid, email |-> r.email, isEmailVerified |-> FALSE,
             hashedPassword |-> bcryptHash(r.password), provider |-> "DEFAULT"]}
    /\ {row \in activateTokens : row.userId = r.uid} = {r.row}
    /\ r.row.token # NoToken
    /\ {m \in mails : m.to = r.email \/ m.link = r.row.token}
         = {[kind |-> "activate", to |-> r.email, link |-> r.row.token]}
    /\ r.row.id = r.uid + 1 /\ nextId = r.uid + 2

\* What activateAccount has done when it answers
Activated(s) ==
    LET r == reqs[s]
        u == findUserById(r.row.userId)
    IN
    /\ r.status \in {200, 400}
    /\ u.id # 0 /\ u.isEmailVerified
    /\ r.status = 200 => r.uid = u.id

(* C5: a successful registerUser has created exactly one new unverified     *)
(* user and one activation token bound to it, and has invoked the mail send *)
(* once, with a link containing that token; activateAccount with that token *)
(* then sets the verified flag of that user and of no other user.           *)
C5_RegisterThenActivate ==
    [][ \A s \in Slots :
          LET r == reqs'[s] IN
          /\ (reqs[s].pc # "done" /\ r.pc = "done" /\ r.op = "registerUser"
                /\ r.status = 201) => Registered(s)'
          /\ (reqs[s].pc # "done" /\ r.pc = "done" /\ r.op = "activateAccount"
                /\ r.row.id # 0) => Activated(s)'
          /\ (reqs[s].op = "activateAccount" /\ users' # users)
             => \E u \in users :
                   /\ u.id = reqs[s].row.userId
                   /\ users' = (users \ {u}) \cup {[u EXCEPT !.isEmailVerified = TRUE]}
      ]_vars

C5_Witness ==
    \E s \in Slots :
       /\ Answered(s) /\ reqs[s].op = "activateAccount" /\ reqs[s].status = 200
       /\ \E u \in users : u.id = reqs[s].uid /\ u.isEmailVerified
       /\ \E u \in users : u.id # reqs[s].uid
       /\ \E m \in mails : m.link = reqs[s].token /\ m.kind = "activate"

\* The rows of every token table
tokenRows == activateTokens \cup passwordResetTokens \cup deleteTokens

(* C6: when the mail send fails, the issuing operation fails all-or-nothing: *)
(* the caller gets an error and the store keeps no user row and no token    *)
(* row that the request created.                                            *)
C6_AllOrNothing ==
    \A s \in Slots :
       LET r == reqs[s] IN
       (Answered(s) /\ r.mail = "failed")
       => /\ r.status = 500
          /\ r.op = "registerUser" => findUserById(r.uid).id = 0
          /\ \A row \in tokenRows : row.id # r.row.id

(* C7: registerUser and resetPasswordRequest report success only after the  *)
(* mail send has completed successfully: no success response and no session *)
(* credential while the send is awaited or after it has failed.             *)
C7_SuccessAfterMail ==
    \A s \in Slots :
       LET r == reqs[s] IN
       r.op \in {"registerUser", "resetPasswordRequest"}
       => /\ r.pc = "sendMail"
             => /\ r.status = 0 /\ r.sess = NoCred
                /\ r.op = "registerUser" => \A c \in sessions : c.id # r.uid
          /\ (Answered(s) /\ (r.status \in {200, 201} \/ r.sess # NoCred))
             => r.mail = "sent"
          /\ (Answered(s) /\ r.mail = "failed")
             => /\ r.status = 500 /\ r.sess = NoCred
                /\ r.op = "registerUser" => \A c \in sessions : c.id # r.uid

C7_Witness ==
    \E s \in Slots :
       /\ Answered(s) /\ reqs[s].op = "registerUser"
       /\ reqs[s].status = 201 /\ reqs[s].mail = "sent"
       /\ reqs[s].sess \in sessions

\* The cases in which a login must fail: nobody has the email, the password
\* is not the one stored, the account came from a provider or has no hash
LoginMustFail(email, password) ==
    LET u == findUserByEmail(email) IN
    \/ u.id = 0
    \/ u.hashedPassword.pw # password
    \/ u.provider # "DEFAULT"
    \/ u.hashedPassword = NoHash

(* C8: loginUser fails and issues no session credential when no user has    *)
(* the email, when the password does not match the stored hash, and when    *)
(* the account was created through a provider or has no password hash.      *)
C8_LoginFails ==
    [][ \A s \in Slots :
          LET r == reqs'[s] IN
          (reqs[s].pc = "idle" /\ r.op = "loginUser"
            /\ LoginMustFail(r.email, r.password))
          => /\ r.pc = "done"
             /\ r.status \in {400, 422}
             /\ r.sess = NoCred
             /\ sessions' = sessions
      ]_vars

C8_Witness ==
    \E s \in Slots :
       /\ Answered(s) /\ reqs[s].op = "loginUser" /\ reqs[s].status = 400
       /\ reqs[s].password = "Passw0rd!"
       /\ findUserByEmail(reqs[s].email).provider = "GOOGLE"

hasEmail(e) == \E u \in users : u.email = e

NoSharedEmail == \A u1, u2 \in users : u1.email = u2.email => u1 = u2

(* C9: authorizeUserWithProvider, for a provider-verified email, answers    *)
(* with a session for the user that has the email and creates no user, or,  *)
(* finding none, creates exactly one new verified user and answers with a   *)
(* session for it (a request that loses the race for the email creates      *)
(* nothing and answers 500); under every interleaving of registerUser and   *)
(* authorizeUserWithProvider no two users share an email.                   *)
C9_ProviderLogin ==
    [][ /\ NoSharedEmail'
        /\ \A s \in Slots :
             LET r == reqs'[s] IN
             (reqs[s].op = "authorizeUserWithProvider" /\ reqs[s].pc # r.pc)
             => /\ (reqs[s].pc = "findFirst" /\ hasEmail(r.email))
                   => /\ r.pc = "done" /\ r.status = 200
                      /\ users' = users
                      /\ \E u \in users : u.email = r.email /\ r.sess.id = u.id
                      /\ r.sess \in sessions'
                /\ (reqs[s].pc = "findFirst" /\ ~hasEmail(r.email))
                   => r.pc = "create" /\ users' = users
                /\ (reqs[s].pc = "create" /\ ~hasEmail(r.email))
                   => /\ r.pc = "done" /\ r.status = 201
                      /\ \E u \in users' :
                            /\ u \notin users /\ users' = users \cup {u}
                            /\ u.email = r.email /\ u.isEmailVerified
                            /\ r.sess.id = u.id
                      /\ r.sess \in sessions'
                /\ (reqs[s].pc = "create" /\ hasEmail(r.email))
                   => /\ r.pc = "done" /\ r.status = 500 /\ r.sess = NoCred
                      /\ users' = users /\ sessions' = sessions
      ]_vars

C9_Witness ==
    \E s \in Slots :
       /\ Answered(s) /\ reqs[s].op = "authorizeUserWithProvider"
       /\ reqs[s].status = 201
       /\ \E t \in Slots : reqs[t].op = "registerUser" /\ reqs[t].pc = "createUser"
       /\ Cardinality(users) = 1

Protected == {"getUser", "sendAccountDeleteEmail", "deleteUser"}

(* C10: a session credential issued for user u is accepted by protect as    *)
(* user u while it is less than 30 days old and u exists; a request whose   *)
(* credential is missing, was not signed by the server or is expired is     *)
(* answered 401 and the protected handler never runs.                       *)
C10_Protect ==
    [][ \A s \in Slots :
          LET r == reqs'[s]
              c == r.cred
          IN  /\ (reqs[s].pc = "idle" /\ r.op \in Protected)
                 => /\ (c \in sessions /\ now - c.iat < SessionTtl
                         /\ \E u \in users : u.id = c.id)
                       => (r.user = c.id /\ r.status # 401)
                    /\ (c \notin sessions \/ now - c.iat >= SessionTtl)
                       => (r.pc = "done" /\ r.status = 401 /\ r.user = 0)
              /\ (r.op \in Protected /\ r.pc # "idle" /\ r.status # 401)
                 => (r.user # 0 /\ r.user = c.id /\ c \in sessions)
      ]_vars

C10_Witness ==
    \E s \in Slots :
       /\ Answered(s) /\ reqs[s].op = "getUser" /\ reqs[s].status = 200
       /\ reqs[s].user = reqs[s].cred.id
       /\ now - reqs[s].cred.iat = TokenTtl + 1

\* The drafts that have the id a request names
draftsNamed(blogId) == {b \in blogs : b.blogId = blogId /\ b.draft}

(* C11: publishBlog fails with NotFound (404) if no draft with the given id  *)
(* exists, with Forbidden (403) if the requester is not the author, and with *)
(* ValidationError (400) if title or content is empty, checked in that order; *)
(* on each of these failures no blog's draft flag changes and no             *)
(* notification is created.                                                  *)
C11_PublishFails ==
    [][ \A s \in Slots :
          LET r == reqs'[s]
              d == draftsNamed(r.blogId)
          IN  (reqs[s].pc = "idle" /\ r.op = "publishBlog" /\ r.user # 0)
              => /\ d = {} => r.status = 404
                 /\ (\E b \in d : b.authorId # r.user) => r.status = 403
                 /\ (\E b \in d : b.authorId = r.user /\ (b.title = "" \/ b.content = ""))
                       => r.status = 400
                 /\ r.status \in {404, 403, 400}
                       => /\ r.pc = "done" /\ r.made = {}
                          /\ blogs' = blogs
                          /\ notifications' = notifications
      ]_vars

C11_Witness ==
    \E s \in Slots :
       /\ Answered(s) /\ reqs[s].op = "publishBlog" /\ reqs[s].status = 400
       /\ reqs[s].blog \in blogs /\ reqs[s].blog.draft /\ reqs[s].blog.title = ""
       /\ \E f \in follows : f.userId = reqs[s].blog.authorId
       /\ notifications = {}

\* The notifications about a blog
about(blogId) == {n \in notifications : n.blogId = blogId}

\* The users who follow a user
followersOf(userId) == {f.followerId : f \in {x \in follows : x.userId = userId}}

(* C12: a successful publishBlog of a draft whose author has N followers at  *)
(* that moment has created exactly N notification records, one per follower, *)
(* each with seen = false and each referencing the published post's id.      *)
C12_OnePerFollower ==
    [][ \A s \in Slots :
          LET q == reqs[s] IN
          (q.pc # "done" /\ reqs'[s].pc = "done" /\ q.op = "publishBlog"
            /\ reqs'[s].status = 200)
          => /\ Cardinality(about(q.blog.id)') = Cardinality(followersOf(q.user))
             /\ \A u \in followersOf(q.user) :
                   Cardinality({n \in about(q.blog.id)' : n.userId = u}) = 1
             /\ \A n \in about(q.blog.id)' : ~n.seen
             /\ \E b \in blogs' : b.id = q.blog.id /\ b.blogId = q.blogId /\ ~b.draft
      ]_vars

C12_Witness ==
    \E s \in Slots :
       /\ Answered(s) /\ reqs[s].op = "publishBlog" /\ reqs[s].status = 200
       /\ Cardinality(followersOf(reqs[s].user)) = Len(MemberNames) - 1
       /\ Cardinality(about(reqs[s].blog.id)) = Len(MemberNames) - 1

(* C13: in every reachable state there is at most one notification for any  *)
(* (post, follower) pair, also when two publishBlog requests for the same    *)
(* draft run concurrently with their store operations interleaved.           *)
C13_OneNotificationPerPair ==
    \A n1, n2 \in notifications :
       (n1.blogId = n2.blogId /\ n1.userId = n2.userId) => n1 = n2

(* C14: follower enumeration for a post happens once, at publish time: a     *)
(* user who starts following the author after a publishBlog request for post *)
(* P was answered 200 receives no notification for P from then on.           *)
C14_NoLateNotification ==
    \A c \in completed, f \in follows, n \in notifications :
       (f.userId = c.author /\ f.id >= c.at /\ n.blogId = c.blog
         /\ n.userId = f.followerId)
       => n.id < f.id

(* C15: publishing is a one-way transition: once a blog's draft flag is      *)
(* false, no step of any handler sets it back to true for as long as the     *)
(* blog exists.                                                              *)
C15_NeverDraftAgain ==
    [][ \A b \in blogs : \A c \in blogs' : (c.id = b.id /\ ~b.draft) => ~c.draft ]_vars

C15_Witness ==
    \E s \in Slots :
       /\ Answered(s) /\ reqs[s].op = "editBlog" /\ reqs[s].status = 200
       /\ ~reqs[s].blog.draft
       /\ \E b \in blogs : b.id = reqs[s].blog.id /\ ~b.draft /\ b.title = reqs[s].title

NoSelfEdge == \A f \in follows : f.userId # f.followerId

(* C16: a user can never follow themself: followUser where the target is the *)
(* requester fails (403) and adds no edge, and in every reachable state no   *)
(* Follow edge has its follower id equal to its followed id.                 *)
C16_NoSelfFollow ==
    [][ /\ NoSelfEdge'
        /\ \A s \in Slots :
             LET r == reqs'[s] IN
             (reqs[s].pc = "idle" /\ r.op = "followUser" /\ r.user # 0
               /\ usernames[r.user] = r.name)
             => (r.pc = "done" /\ r.status = 403 /\ follows' = follows)
      ]_vars

C16_Witness ==
    \E s \in Slots :
       /\ Answered(s) /\ reqs[s].op = "followUser" /\ reqs[s].status = 403
       /\ usernames[reqs[s].user] = reqs[s].name
       /\ follows # {}

\* The edges from a follower to the user of a name
edges(follower, name) ==
    {f \in follows : f.followerId = follower /\ usernames[f.userId] = name}

(* C17: following the same target twice fails on the second call without     *)
(* adding an edge, and in every reachable state there is at most one Follow  *)
(* edge per ordered (follower, followed) pair, also when two followUser      *)
(* requests for the same pair run concurrently.                              *)
C17_OneEdgePerPair ==
    [][ /\ \A f1, f2 \in follows' :
             (f1.userId = f2.userId /\ f1.followerId = f2.followerId) => f1 = f2
        /\ \A s \in Slots :
             LET q == reqs[s] IN
             (q.op = "followUser" /\ q.pc # "done" /\ reqs'[s].pc = "done"
               /\ edges(q.user, q.name) # {})
             => (reqs'[s].status \in {400, 500} /\ follows' = follows)
        /\ \A s \in Slots :
             LET r == reqs'[s] IN
             (reqs[s].pc = "idle" /\ r.op = "followUser" /\ edges(r.user, r.name) # {})
             => (r.pc = "findFirst" /\ follows' = follows)
        /\ \A s \in Slots :
             LET q == reqs[s] IN
             (q.op = "followUser" /\ q.pc = "findFirst" /\ reqs'[s] # q
               /\ edges(q.user, q.name) # {})
             => (reqs'[s].pc = "done" /\ reqs'[s].status = 400)
      ]_vars

C17_Witness ==
    \E s \in Slots :
       /\ Answered(s) /\ reqs[s].op = "followUser" /\ reqs[s].status = 500
       /\ edges(reqs[s].user, reqs[s].name) # {}

(* C18: a confirmed deletion request (deleteUser with an unexpired deletion  *)
(* token bound to the requester) deletes the user and, by cascade, the       *)
(* tokens, posts, follows and notifications of the user: afterwards the user *)
(* record is gone and no remaining record references that user.              *)
C18_DeleteCascades ==
    \A s \in Slots :
       LET r == reqs[s] IN
       (/\ Answered(s) /\ r.op = "deleteUser"
        /\ r.row.id # 0 /\ r.row.userId = r.user
        /\ age(r) <= TokenTtl)
       => /\ r.status = 200
          /\ \A u \in users : u.id # r.user
          /\ \A row \in tokenRows : row.userId # r.user
          /\ \A b \in blogs : b.authorId # r.user
          /\ \A f \in follows : f.userId # r.user /\ f.followerId # r.user
          /\ \A n \in notifications : n.userId # r.user

(* C19: the password-reset token is consumed in the same transaction as the  *)
(* password overwrite: in no reachable state has a request overwritten the   *)
(* user's password hash through token T while T is still unconsumed.         *)
C19_ConsumedWithOverwrite ==
    \A s \in Slots :
       LET r == reqs[s] IN
       (r.op = "resetAccountPassword" /\ r.uid # 0
         /\ findUserById(r.uid).hashedPassword = bcryptHash(r.password))
       => \A row \in passwordResetTokens : row.id = r.row.id => row.usedAt # -1

(* C20: notifications are created only as a side effect of publishing: in    *)
(* every reachable state each notification references a blog whose draft     *)
(* flag is false, and only a step of a publishBlog request that has passed   *)
(* its checks and ends with 200 adds a notification.                         *)
C20_OnlyByPublishing ==
    [][ /\ \A n \in notifications' : \E b \in blogs' : b.id = n.blogId /\ ~b.draft
        /\ \A n \in notifications' :
             (\A m \in notifications : m.id # n.id)
             => \E s \in Slots :
                   /\ reqs[s].op = "publishBlog" /\ reqs[s].pc # "done"
                   /\ reqs'[s] # reqs[s]
                   /\ reqs'[s].status \in {0, 200}
                   /\ \E b \in blogs : /\ b.blogId = reqs[s].blogId /\ b.id = n.blogId
                                       /\ b.authorId = reqs[s].user
                                       /\ b.title # "" /\ b.content # ""
                   /\ n.userId \in followersOf(reqs[s].user)
      ]_vars

C20_Witness ==
    \E s \in Slots :
       /\ Answered(s) /\ reqs[s].op = "markNotificationsAsSeen" /\ reqs[s].status = 200
       /\ \E n \in notifications : n.userId = reqs[s].user /\ n.seen
       /\ \E b \in blogs : ~b.draft /\ about(b.id) # {}

\* The operations that answer with blogs
ReadOperations == {"getBlog", "getBlogs", "searchBlogs", "getCategoryBlogs",
                   "getSavedBlogs", "getProfile"}

(* C21: a draft is visible only to its author: no read operation (getBlog,   *)
(* getBlogs, searchBlogs, getCategoryBlogs, getSavedBlogs, getProfile)       *)
(* answers with the title or content of a blog whose draft flag is true to a *)
(* requester other than the blog's author.                                   *)
C21_DraftsPrivate ==
    \A s \in Slots :
       LET r == reqs[s] IN
       (Answered(s) /\ r.op \in ReadOperations)
       => \A b \in r.shown : b.draft => b.authorId = r.user


(* C22: every resetPasswordRequest for a user issues a brand-new token and   *)
(* leaves the tokens that user was issued before untouched; the tokens of k  *)
(* requests made within 24 hours are all valid together: resetAccountPassword *)
(* with any of them and an acceptable password answers 200 and overwrites    *)
(* the password of the token's user.                                        *)
C22_TokensCoexist ==
    [][\A s \in Slots :
          LET r == reqs[s]
              q == reqs'[s]
          IN  /\ (r.op = "resetPasswordRequest" /\ r.pc = "create" /\ q.pc = "sendMail")
                 => /\ q.row.userId = r.uid
                    /\ q.row.usedAt = -1
                    /\ q.row.token \notin issued(passwordResetTokens)
                    /\ q.row \notin passwordResetTokens
                    /\ passwordResetTokens' = passwordResetTokens \cup {q.row}
              /\ (/\ q.op = "resetAccountPassword"
                  /\ q.password = "N3wpass!!"
                  /\ \E row \in passwordResetTokens' :
                        row.token = q.token /\ q.at - row.createdAt <= TokenTtl)
                 => /\ q.row.token = q.token
                    /\ q.pc \in {"updateUser", "updateToken", "done"}
                    /\ q.pc = "done"
                       => /\ q.status = 200
                          /\ \E u \in users' : /\ u.id = q.row.userId
                                               /\ u.hashedPassword = bcryptHash(q.password)
      ]_vars

\* Two tokens of one user, issued within 24 hours, were both used with success.
C22_Witness ==
    \E s \in Slots, a, b \in passwordResetTokens :
       /\ a.id < b.id /\ a.userId = b.userId
       /\ a.usedAt # -1 /\ b.usedAt # -1
       /\ a.usedAt >= b.createdAt
       /\ Answered(s) /\ reqs[s].op = "resetAccountPassword" /\ reqs[s].status = 200
       /\ reqs[s].row.id = a.id
       /\ now - a.createdAt <= TokenTtl


\* What resetAccountPassword must refuse: no password, a password against the
\* policy, a token that was never issued or was issued more than 24 hours ago
refusable(q) ==
    \/ q.password = ""
    \/ ~passwordRegexTest(q.password)
    \/ \A row \in passwordResetTokens : row.token # q.token
    \/ \E row \in passwordResetTokens : row.token = q.token /\ q.at - row.createdAt > TokenTtl

(* C26: a successful resetAccountPassword with token T overwrites the        *)
(* password hash of exactly the user T is bound to and of no other user;     *)
(* afterwards loginUser for that user succeeds with the new password and     *)
(* fails with the old one; a rejected request (no password, a password       *)
(* against the policy, an unknown or expired token) changes neither a hash   *)
(* nor the token.                                                           *)
C26_ResetOverwritesItsUser ==
    [][\A s \in Slots :
          LET r == reqs[s]
              q == reqs'[s]
          IN  /\ (r.op = "resetAccountPassword" /\ r.pc = "updateUser" /\ q # r)
                 => /\ q.pc = "updateToken"
                    /\ r.row.token = r.token
                    /\ \E u \in users :
                          /\ u.id = r.row.userId
                          /\ users' = (users \ {u}) \cup
                                        {[u EXCEPT !.hashedPassword = bcryptHash(r.password)]}
              /\ (r.op = "resetAccountPassword" /\ r.pc # "updateUser") => users' = users
              /\ (r.pc = "idle" /\ q.op = "loginUser")
                 => \A u \in users :
                       (u.email = q.email /\ u.hashedPassword = bcryptHash("N3wpass!!"))
                       => /\ q.password = "N3wpass!!" => (q.status = 200 /\ q.uid = u.id)
                          /\ q.password = "Passw0rd!" => q.status = 400
              /\ (r.pc = "idle" /\ q.op = "resetAccountPassword" /\ refusable(q))
                 => /\ q.pc = "done" /\ q.status \in {400, 422}
                    /\ users' = users
                    /\ passwordResetTokens' = passwordResetTokens
              /\ (q.op = "resetAccountPassword" /\ q.status \in {400, 422} /\ q # r)
                 => r.pc = "idle"
      ]_vars

\* After a reset of a@x.io, a login with the new password succeeded, and
\* b@x.io still has the password it registered with.
C26_Witness ==
    \E s \in Slots, row \in passwordResetTokens :
       /\ row.usedAt # -1 /\ row.userId = 1
       /\ Answered(s) /\ reqs[s].op = "loginUser" /\ reqs[s].status = 200
       /\ reqs[s].password = "N3wpass!!" /\ reqs[s].uid = 1
       /\ \E u \in users : u.id = 3 /\ u.hashedPassword = bcryptHash("Passw0rd!")
       /\ \E u \in users : u.id = 1 /\ u.hashedPassword = bcryptHash("N3wpass!!")


\* The publishBlog requests whose loop is still to create notifications of a blog
fanningOut(blogId) ==
    {s \in Slots : /\ reqs[s].op = "publishBlog"
                   /\ reqs[s].pc \in {"update", "findMany", "create"}
                   /\ reqs[s].blog.id = blogId}

(* C23: when a write of publishBlog's notification loop fails, nothing is    *)
(* rolled back and nothing is retried: the blog stays published, the         *)
(* notifications created before the failure remain, the request answers     *)
(* with an error, and no later operation creates the missing notifications:  *)
(* a second publishBlog finds no draft and answers 404.                      *)
C23_NoRollbackNoRetry ==
    [][\A s \in Slots :
          LET r == reqs[s]
              q == reqs'[s]
          IN  /\ (r.op = "publishBlog" /\ r.pc = "create" /\ q.status = 500)
                 => /\ q.pc = "done"
                    /\ blogs' = blogs
                    /\ \E b \in blogs : b.id = r.blog.id /\ ~b.draft
                    /\ notifications' = notifications
                    /\ r.made \subseteq {n.id : n \in notifications'}
              /\ (r.pc = "idle" /\ q.op = "publishBlog" /\ q.user # 0
                    /\ \E b \in blogs : b.blogId = q.blogId /\ ~b.draft)
                 => q.pc = "done" /\ q.status = 404
              /\ \A b \in blogs :
                    (~b.draft /\ fanningOut(b.id) = {})
                    => {n.id : n \in {x \in notifications' : x.blogId = b.id}}
                          \subseteq {n.id : n \in notifications}
      ]_vars

\* The loop failed after its first notification: the author's second
\* publishBlog was answered 404, and one follower still has no notification.
C23_Witness ==
    \E s \in Slots, b \in blogs :
       /\ Answered(s) /\ reqs[s].op = "publishBlog" /\ reqs[s].status = 404
       /\ reqs[s].user = b.authorId /\ reqs[s].blogId = b.blogId
       /\ ~b.draft
       /\ about(b.id) # {}
       /\ \E f \in followersOf(b.authorId) : \A n \in about(b.id) : n.userId # f
       /\ completed = {}


\* The ids of the users in the store
userIds(table) == {u.id : u \in table}

(* C24: deleteUser deletes only the requester's own account: a request whose *)
(* delete token is bound to another user than the authenticated requester is *)
(* rejected (403 for a token in its 24 hours) and deletes no user; the user  *)
(* that deleteUser asks the store to delete, and any user it deletes, is the *)
(* token's user, who is the requester.                                      *)
C24_OnlyOwnAccount ==
    [][\A s \in Slots :
          LET r == reqs[s]
              q == reqs'[s]
          IN  /\ (q.op = "deleteUser" /\ q.row.id # 0 /\ q.row.userId # q.user)
                 => /\ q.pc = "done"
                    /\ q.status \in {400, 403}
                    /\ q.at - q.row.createdAt <= TokenTtl => q.status = 403
                    /\ userIds(users') = userIds(users)
              /\ (q.op = "deleteUser" /\ (q.pc = "delete" \/ q.status \in {200, 500}))
                 => /\ q.row.userId = q.user
                    /\ q.row.token = q.token
              /\ r.op = "deleteUser"
                 => \A id \in userIds(users) \ userIds(users') :
                       r.pc = "delete" /\ id = r.row.userId /\ id = r.user
      ]_vars

\* A member presented, within its 24 hours, the delete token of another member
\* and was answered 403; both accounts are still there.
C24_Witness ==
    \E s \in Slots :
       LET r == reqs[s] IN
       /\ Answered(s) /\ r.op = "deleteUser" /\ r.status = 403
       /\ r.row.id # 0 /\ r.row.userId # r.user
       /\ {r.user, r.row.userId} \subseteq userIds(users)


(* C27: every published blog has a non-empty title and a non-empty content,  *)
(* whatever sequence of createBlog, editBlog and publishBlog its author      *)
(* performs.                                                                *)
C27_PublishedBlogsHaveText ==
    \A b \in blogs : ~b.draft => (b.title # "" /\ b.content # "")


\* The searches stored for a user
searchesOf(table, userId) == {x \in table : x.userId = userId}

\* At most five searches, no two with the same content
tidy(rows) ==
    /\ Cardinality(rows) <= 5
    /\ \A x, y \in rows : x.content = y.content => x = y

\* No handler is in the middle of a request
betweenCalls(slots) == \A s \in Slots : slots[s].pc \in {"idle", "done"}

\* A step changes only the searches of the requester: nobody's rows while a
\* response is delivered, and never the rows of another user
othersUnchanged ==
    \A x \in (searches \ searches') \cup (searches' \ searches) :
       \E s \in Slots :
          /\ reqs'[s] # reqs[s]
          /\ reqs'[s].op \in {"searchBlogs", "deleteSearch"}
          /\ reqs'[s].user = x.userId

\* The search a user stored last, when the store still has it
isNewest(x, rows) == \A y \in rows : y.userId = x.userId => y.id <= x.id

(* C28 as stated: after any sequence of searchBlogs and deleteSearch calls   *)
(* of one user, handled one at a time, that user has at most five stored     *)
(* searches, no two with the same content, and the user's most recent query  *)
(* is among them; other users' searches are unchanged.                       *)
C28_MostRecentAmongThem ==
    [][/\ othersUnchanged
       /\ \A s \in Slots :
             LET q == reqs'[s] IN
             (q.pc = "done" /\ q.status = 200 /\ q.op \in {"searchBlogs", "deleteSearch"})
             => /\ tidy(searchesOf(searches', q.user))
                /\ q.op = "searchBlogs"
                   => \E x \in searchesOf(searches', q.user) : x.content = q.query
                /\ (q.op = "deleteSearch" /\ q.search.id = nextId - 1)
                   \* the search deleted was stored by the user's most recent query
                   => \E x \in searchesOf(searches', q.user) : x.content = q.search.content
      ]_vars

(* C28, amended: after any such sequence the user has at most five stored    *)
(* searches, no two with the same content; the query of a searchBlogs        *)
(* answered 200 is stored as the user's newest search, and the newest search *)
(* of a user is removed only by that user's deleteSearch or by a later       *)
(* searchBlogs that stores its query again; other users' searches are        *)
(* unchanged.                                                               *)
C28_RecentSearchesKept ==
    [][/\ othersUnchanged
       /\ betweenCalls(reqs') => \A u \in userIds(users) : tidy(searchesOf(searches', u))
       /\ \A s \in Slots :
             LET r == reqs[s]
                 q == reqs'[s]
             IN  (q.pc = "done" /\ q.status = 200 /\ q.op = "searchBlogs" /\ r.pc # "done")
                 => \E x \in searchesOf(searches', q.user) :
                       x.content = q.query /\ isNewest(x, searches')
       /\ \A x \in searches \ searches' :
             isNewest(x, searches)
             => \E s \in Slots :
                   LET r == reqs[s] IN
                   \/ r.op = "deleteSearch" /\ r.user = x.userId
                   \/ /\ r.op = "searchBlogs" /\ r.user = x.userId
                      /\ r.query = x.content
                      /\ \E y \in searches' : y.userId = x.userId /\ y.content = x.content
      ]_vars

\* ann had five searches stored when she searched again: the oldest was
\* deleted, the new query is stored, and bob's search is still there.
C28_Witness ==
    \E s \in Slots :
       LET r == reqs[s] IN
       /\ Answered(s) /\ r.op = "searchBlogs" /\ r.status = 200
       /\ Len(r.recent) >= 5
       /\ r.recent[5] \notin searches
       /\ Cardinality(searchesOf(searches, r.user)) = 5
       /\ \E x \in searches : x.userId # r.user


\* The notification with an id after a step, when it is still there
after(n) == {m \in notifications' : m.id = n.id}

(* C29: markNotificationsAsSeen sets seen on all notifications of the        *)
(* requester and leaves the notifications of every other user unchanged;     *)
(* seen is monotonic: no operation sets it back to false.                    *)
C29_SeenOnlyOwn ==
    [][/\ \A s \in Slots :
             LET q == reqs'[s] IN
             (reqs[s].pc = "idle" /\ q.op = "markNotificationsAsSeen" /\ q.status = 200)
             => /\ {n.id : n \in notifications'} = {n.id : n \in notifications}
                /\ \A n \in notifications :
                      IF n.userId = q.user
                      THEN after(n) = {[n EXCEPT !.seen = TRUE]}
                      ELSE after(n) = {n}
       /\ \A n \in notifications : n.seen => \A m \in after(n) : m.seen
      ]_vars

\* bob and cat both have a notification; bob marked his as seen, cat's is not.
C29_Witness ==
    \E s \in Slots, n, m \in notifications :
       /\ Answered(s) /\ reqs[s].op = "markNotificationsAsSeen" /\ reqs[s].status = 200
       /\ n.userId = reqs[s].user /\ n.seen
       /\ m.userId # reqs[s].user /\ ~m.seen


\* The author of the blog a comment belongs to
blogAuthor(c) == {b.authorId : b \in {x \in blogs : x.id = c.blogId}}

\* The blogs and the comments, and what hangs on them
content == <<blogs, comments, categoryOnBlogs, lists, notifications>>

ProtectedOperations ==
    {"getUser", "sendAccountDeleteEmail", "deleteUser", "getProfile", "deleteSearch",
     "followUser", "unFollowUser", "markNotificationsAsSeen", "getBlogs", "searchBlogs",
     "createBlog", "editBlog", "publishBlog", "deleteBlog", "getSavedBlogs", "addBlog",
     "getCategoryBlogs", "createComment", "editComment", "deleteComment"}

\* A correctly signed, unexpired credential of a user who has no row any more
orphaned(cred) == cred.sig = "ok" /\ now < cred.iat + SessionTtl /\ cred.id \notin userIds(users)

(* C25: after a user's account has been deleted, every request to a          *)
(* protected route that presents that user's unexpired, correctly signed     *)
(* credential is answered 401, and the protected handler never runs: the     *)
(* request has no req.user, takes no step of the handler and changes nothing.*)
C25_DeletedUserShutOut ==
    [][\A s \in Slots :
          LET r == reqs[s]
              q == reqs'[s]
          IN  /\ (r.pc = "idle" /\ q.op \in ProtectedOperations /\ orphaned(q.cred))
                 => /\ q.pc = "done" /\ q.status = 401
                    /\ q.user = 0 /\ q.uid = 0
                    /\ UNCHANGED <<users, sessions, deleteTokens, mails, nextId, blogs,
                                   follows, notifications, comments, lists, searches,
                                   categories, categoryOnBlogs>>
              /\ (r.op \in ProtectedOperations /\ orphaned(r.cred))
                 => r.pc = "done" /\ q \in {r, NoReq}
      ]_vars

\* The deleted member asked, with the credential still held, to comment on a
\* published blog and was answered 401.
C25_Witness ==
    \E s \in Slots :
       LET r == reqs[s] IN
       /\ Answered(s) /\ r.op = "createComment" /\ r.status = 401
       /\ orphaned(r.cred)
       /\ \E b \in blogs : b.blogId = r.blogId /\ ~b.draft
       /\ r.content # ""
       /\ comments = {}

============================================================================
